---- MODULE Spec2Model ----
(***************************************************************************)
(* A model of tempoest's semantic analyzer (DayPlanAnalyzer): the line     *)
(* preprocessing, the regex-based line decomposition, the directive        *)
(* pre-scan and the per-line pass with its cursor, scheduled set and       *)
(* section mode.                                                           *)
(*                                                                         *)
(* Text is modelled character by character: a string is a sequence of      *)
(* one-character strings, so that the regular expressions and the          *)
(* character loops of the source are computed, not assumed.                *)
(*                                                                         *)
(* An instant is a count of whole days since 1970-01-01 and a minute of    *)
(* that day, local time: Date spans 100,000,000 days on either side of     *)
(* 1970-01-01, more minutes than a 32-bit integer holds.                   *)
(* The model assumes a process time zone without offset from UTC and       *)
(* without daylight-saving transitions, so that local wall-clock           *)
(* arithmetic is linear and the range of Date is that of local instants.   *)
(***************************************************************************)
EXTENDS Integers, Sequences, FiniteSets, TLC

\* ------------------------------------------------------------------ text

Digits == <<"0", "1", "2", "3", "4", "5", "6", "7", "8", "9">>
LowerSeq == <<"a", "b", "c", "d", "e", "f", "g", "h", "i", "j", "k", "l", "m",
              "n", "o", "p", "q", "r", "s", "t", "u", "v", "w", "x", "y", "z">>
UpperSeq == <<"A", "B", "C", "D", "E", "F", "G", "H", "I", "J", "K", "L", "M",
              "N", "O", "P", "Q", "R", "S", "T", "U", "V", "W", "X", "Y", "Z">>

Range(f) == {f[i] : i \in DOMAIN f}

Digit == Range(Digits)
Lower == Range(LowerSeq)
Upper == Range(UpperSeq)
Letter == Lower \cup Upper
\* \w of a JavaScript regular expression
WordChar == Letter \cup Digit \cup {"_"}
\* [a-zA-Z0-9_-]
IdentChar == WordChar \cup {"-"}
\* \s of a JavaScript regular expression, and the characters trim() strips;
\* of these the modelled texts use the space and the tab.
Space == {" ", "\t"}

IndexIn(seq, c) == CHOOSE i \in DOMAIN seq : seq[i] = c

\* charCodeAt(0) of the characters the modelled texts use
CharCode(c) ==
  IF c \in Digit THEN 47 + IndexIn(Digits, c)
  ELSE IF c \in Upper THEN 64 + IndexIn(UpperSeq, c)
  ELSE IF c \in Lower THEN 96 + IndexIn(LowerSeq, c)
  ELSE CASE c = "\t" -> 9
         [] c = " " -> 32
         [] c = "!" -> 33
         [] c = "#" -> 35
         [] c = "," -> 44
         [] c = "-" -> 45
         [] c = "." -> 46
         [] c = "/" -> 47
         [] c = ":" -> 58
         [] c = "=" -> 61
         [] c = "_" -> 95

ToLowerChar(c) == IF c \in Upper THEN LowerSeq[IndexIn(UpperSeq, c)] ELSE c
ToLowerCase(s) == [i \in DOMAIN s |-> ToLowerChar(s[i])]

\* The index just past the longest run of characters of C that starts at i.
RunEnd(s, i, C) ==
  CHOOSE j \in i..(Len(s) + 1) :
    /\ \A k \in i..(j - 1) : s[k] \in C
    /\ (j = Len(s) + 1 \/ s[j] \notin C)

\* The index of the last character that is not white space, 0 if none.
LastNonSpace(s) ==
  CHOOSE j \in 0..Len(s) :
    /\ \A k \in (j + 1)..Len(s) : s[k] \in Space
    /\ (j = 0 \/ s[j] \notin Space)

Slice(s, from) == SubSeq(s, from, Len(s))
Trim(s) == SubSeq(s, RunEnd(s, 1, Space), LastNonSpace(s))

StartsWith(s, p) == Len(s) >= Len(p) /\ SubSeq(s, 1, Len(p)) = p
EndsWith(s, p) == Len(s) >= Len(p) /\ SubSeq(s, Len(s) - Len(p) + 1, Len(s)) = p
Includes(s, p) == \E i \in 1..(Len(s) - Len(p) + 1) : SubSeq(s, i, i + Len(p) - 1) = p

\* parseInt(digits, 10) of a non-empty run of decimal digits
RECURSIVE ParseInt(_)
ParseInt(ds) ==
  IF ds = <<>> THEN 0
  ELSE 10 * ParseInt(SubSeq(ds, 1, Len(ds) - 1)) + (IndexIn(Digits, ds[Len(ds)]) - 1)

\* Array.prototype.join(' ')
RECURSIVE JoinSpace(_)
JoinSpace(parts) ==
  IF parts = <<>> THEN <<>>
  ELSE IF Len(parts) = 1 THEN parts[1]
  ELSE parts[1] \o <<" ">> \o JoinSpace(Tail(parts))

\* An optional value: <<>> is absent (null, undefined), <<v>> is v.
None == <<>>
Some(v) == <<v>>
IsSome(o) == o # <<>>
ValueOf(o) == o[1]

\* ----------------------------------------------------------- diagnostics

\* A Diagnostic with its span.  message is the fixed text of the message;
\* where the code appends the offending text (`Invalid time format: ${timeStr}`,
\* `Unknown directive: ${directive.name}`) that text is left out.
Diag(code, message, line, startCol, endCol) ==
  [code |-> code, message |-> message, line |-> line,
   startCol |-> startCol, endCol |-> endCol]

\* d.code.startsWith('E'): the codes are those of ErrorCode and WarningCode.
ErrorCodes == {"E001-bad-time", "E010-bad-duration", "E020-missing-start-first-line",
               "E030-overlap", "E040-unknown-directive", "E050-bad-category"}
WarningCodes == {"W001-missing-space-after-dash", "W005-trailing-comma",
                 "W010-overlap", "W020-ambiguous-time", "W030-unknown-part"}
IsErrorCode(code) == code \in ErrorCodes

Codes(diagnostics) == {diagnostics[i].code : i \in DOMAIN diagnostics}

\* ------------------------------------------------------------ tokenizer

\* preprocessLine: the dash-space detection of one line.
preprocessLine(line, lineNo) ==
  LET i == RunEnd(line, 1, Space)
      isDash == i <= Len(line) /\ line[i] = "-"
      dashLen == RunEnd(line, i + 1, Space) - 1
      dashPart == SubSeq(line, 1, dashLen)
      afterDash == Slice(line, dashLen + 1)
      hasSpace == dashPart[1] = "-" /\ Len(dashPart) >= 2 /\ dashPart[2] \in Space
  IN IF ~isDash
     THEN [hasSpaceAfterDash |-> TRUE, processedLine |-> line, diagnostics |-> <<>>]
     ELSE IF ~hasSpace /\ Len(afterDash) > 0 /\ afterDash[1] \notin Space
     THEN [hasSpaceAfterDash |-> FALSE,
           processedLine |-> dashPart \o <<" ">> \o afterDash,
           diagnostics |-> <<Diag("W001-missing-space-after-dash",
                                  "Missing space after dash",
                                  lineNo, dashLen, dashLen + 1)>>]
     ELSE [hasSpaceAfterDash |-> TRUE, processedLine |-> line, diagnostics |-> <<>>]

\* ------------------------------------------------- part classification

\* The groups of /^(\d{1,2})(?::(\d{2}))?(?:(am|pm))?$/i on the lower-cased
\* string s, whose leading digits end before hEnd and whose minutes (present
\* when hasMin) end before mEnd.
ClockGroups(s, hEnd, hasMin, mEnd) ==
  [ok |-> /\ hEnd - 1 \in 1..2
          /\ (hasMin => mEnd - (hEnd + 1) = 2)
          /\ Slice(s, mEnd) \in {<<>>, <<"a", "m">>, <<"p", "m">>},
   hours |-> SubSeq(s, 1, hEnd - 1),
   minutes |-> IF hasMin THEN SubSeq(s, hEnd + 1, mEnd - 1) ELSE <<>>,
   ampm |-> Slice(s, mEnd)]

ClockMinutes(s, hEnd, hasMin) ==
  ClockGroups(s, hEnd, hasMin, IF hasMin THEN RunEnd(s, hEnd + 1, Digit) ELSE hEnd)

ClockHours(s, hEnd) == ClockMinutes(s, hEnd, hEnd <= Len(s) /\ s[hEnd] = ":")

ClockLower(s) == ClockHours(s, RunEnd(s, 1, Digit))

\* /^(\d{1,2})(?::(\d{2}))?(?:(am|pm))?$/i: ok, and the three groups (the
\* second and third <<>> when they do not take part).
MatchClock(str) == ClockLower(ToLowerCase(str))

Noon == <<"n", "o", "o", "n">>
Midnight == <<"m", "i", "d", "n", "i", "g", "h", "t">>

\* /^(?:\d{1,2}(?::\d{2})?(?:am|pm)?|\d{2}:\d{2}|noon|midnight)$/i
isTimePart(part) ==
  \/ MatchClock(part).ok
  \/ /\ Len(part) = 5
     /\ part[3] = ":"
     /\ \A k \in {1, 2, 4, 5} : part[k] \in Digit
  \/ ToLowerCase(part) = Noon
  \/ ToLowerCase(part) = Midnight

\* /^\d+h(?:\d{1,2}m)?|\d+m$/: the first alternative is anchored at the
\* start only, the second at the end only.
isDurationPart(part) ==
  LET dEnd == RunEnd(part, 1, Digit)
  IN \/ dEnd > 1 /\ dEnd <= Len(part) /\ part[dEnd] = "h"
     \/ Len(part) >= 2 /\ part[Len(part)] = "m" /\ part[Len(part) - 1] \in Digit

\* [a-zA-Z0-9_-]+(?:::[a-zA-Z0-9_-]+)*$ from index i
RECURSIVE MatchSegments(_, _)
MatchSegments(s, i) ==
  LET e == RunEnd(s, i, IdentChar)
  IN /\ e > i
     /\ \/ e = Len(s) + 1
        \/ /\ e + 1 <= Len(s)
           /\ s[e] = ":"
           /\ s[e + 1] = ":"
           /\ MatchSegments(s, e + 2)

\* /^:[a-zA-Z0-9_-]+(?:::[a-zA-Z0-9_-]+)*$/
isCategoryPart(part) ==
  Len(part) >= 2 /\ part[1] = ":" /\ MatchSegments(part, 2)

\* /^\d+[a-zA-Z]$/ and not a duration
isLikelyBadDuration(part) ==
  /\ Len(part) >= 2
     /\ part[Len(part)] \in Letter
     /\ \A k \in 1..(Len(part) - 1) : part[k] \in Digit
  /\ ~isDurationPart(part)

isLikelyBadCategory(part) ==
  StartsWith(part, <<":">>) /\ ~isCategoryPart(part)

\* parseCategory of a part that isCategoryPart accepted
parseCategory(part, lineNo) ==
  IF EndsWith(part, <<":", ":">>) \/ Includes(part, <<":", ":", ":">>)
  THEN [category |-> None,
        error |-> Some(Diag("E050-bad-category", "Invalid category format",
                            lineNo, 1, Len(part) + 1))]
  ELSE [category |-> Some(part), error |-> None]

\* splitTaskParts: the character loop, from index i with the loop's locals.
RECURSIVE SplitLoop(_, _, _, _, _)
SplitLoop(content, i, parts, current, inCategory) ==
  IF i > Len(content)
  THEN IF Trim(current) # <<>> THEN Append(parts, Trim(current)) ELSE parts
  ELSE LET char == content[i]
           nextIsColon == i + 1 <= Len(content) /\ content[i + 1] = ":"
       IN IF char = ":"
          THEN SplitLoop(content, i + 1, parts, Append(current, char), TRUE)
          ELSE IF char = "," /\ ~inCategory
          THEN SplitLoop(content, i + 1,
                         IF Trim(current) # <<>> THEN Append(parts, Trim(current))
                                                 ELSE parts,
                         <<>>, inCategory)
          ELSE IF char = " " /\ ~inCategory /\ Trim(current) # <<>>
          THEN SplitLoop(content, i + 1, Append(parts, Trim(current)), <<>>, inCategory)
          ELSE SplitLoop(content, i + 1, parts, Append(current, char),
                         IF inCategory /\ ~nextIsColon THEN FALSE ELSE inCategory)

splitTaskParts(content) == SplitLoop(content, 1, <<>>, <<>>, FALSE)

\* ------------------------------------------------------ line decomposition

EmptyTask == [time |-> None, duration |-> None, categories |-> <<>>, titleParts |-> <<>>]

\* The body of parseLineContent's loop over the parts, for one part; acc holds
\* the task under construction and the diagnostics so far.
ClassifyPart(acc, part, line, lineNo) ==
  LET task == acc.task
      whole(code, message) == Diag(code, message, lineNo, 1, Len(line) + 1)
      push(d) == [acc EXCEPT !.diagnostics = Append(@, d)]
      title == [task EXCEPT !.titleParts = Append(@, part)]
  IN IF isTimePart(part)
     THEN IF IsSome(task.time)
          THEN push(whole("W030-unknown-part", "Multiple time values found"))
          ELSE [acc EXCEPT !.task.time = Some(part)]
     ELSE IF isDurationPart(part)
     THEN IF IsSome(task.duration)
          THEN push(whole("W030-unknown-part", "Multiple duration values found"))
          ELSE [acc EXCEPT !.task.duration = Some(part)]
     ELSE IF isCategoryPart(part)
     THEN LET categoryResult == parseCategory(part, lineNo)
          IN IF IsSome(categoryResult.error)
             THEN push(ValueOf(categoryResult.error))
             ELSE [acc EXCEPT !.task.categories = Append(@, ValueOf(categoryResult.category))]
     ELSE IF isLikelyBadCategory(part)
     THEN [task |-> title,
           diagnostics |-> Append(acc.diagnostics,
                                  whole("E050-bad-category", "Invalid category format"))]
     ELSE IF isLikelyBadDuration(part)
     THEN [task |-> title,
           diagnostics |-> Append(acc.diagnostics,
                                  whole("E010-bad-duration", "Invalid duration format"))]
     ELSE [acc EXCEPT !.task = title]

RECURSIVE ClassifyParts(_, _, _, _, _)
ClassifyParts(acc, parts, k, line, lineNo) ==
  IF k > Len(parts) THEN acc
  ELSE ClassifyParts(ClassifyPart(acc, parts[k], line, lineNo), parts, k + 1, line, lineNo)

\* content.split(/\s*[#\/]/)[0]: the text before the first comment marker and
\* the white space in front of it.
BeforeComment(content) ==
  LET marks == {i \in DOMAIN content : content[i] \in {"#", "/"}}
  IN IF marks = {} THEN content
     ELSE LET c == CHOOSE i \in marks : \A j \in marks : i <= j
              keep == CHOOSE j \in 0..(c - 1) :
                        /\ \A k \in (j + 1)..(c - 1) : content[k] \in Space
                        /\ (j = 0 \/ content[j] \notin Space)
          IN SubSeq(content, 1, keep)

\* The trailing-comma check at the end of parseLineContent.
LastComma(s) ==
  CHOOSE i \in DOMAIN s : s[i] = "," /\ \A j \in (i + 1)..Len(s) : s[j] # ","

TrailingCommaIn(beforeComment, lineNo) ==
  IF EndsWith(Trim(beforeComment), <<",">>)
  THEN <<Diag("W005-trailing-comma", "Trailing comma found", lineNo,
              LastComma(beforeComment), LastComma(beforeComment) + 1)>>
  ELSE <<>>

TrailingComma(content, lineNo) == TrailingCommaIn(BeforeComment(content), lineNo)

\* Record<string, string> as the sequence of its [key, value] entries in
\* insertion order.
HasKey(args, key) == \E i \in DOMAIN args : args[i].key = key
Get(args, key) == args[CHOOSE i \in DOMAIN args : args[i].key = key].value
\* The key "__proto__": on a plain object, assigning it a string sets the
\* inherited accessor, which ignores a value that is no object, and adds no
\* own property.
ProtoKey == <<"_", "_", "p", "r", "o", "t", "o", "_", "_">>
\* args[key] = value
Put(args, key, value) ==
  IF key = ProtoKey THEN args
  ELSE IF HasKey(args, key)
  THEN [i \in DOMAIN args |-> IF args[i].key = key
                              THEN [key |-> key, value |-> value] ELSE args[i]]
  ELSE Append(args, [key |-> key, value |-> value])

\* The decimal numerals a and b without leading zeros: a stands for a number
\* below that of b.
NumeralBelow(a, b) ==
  \/ Len(a) < Len(b)
  \/ /\ Len(a) = Len(b)
     /\ \E k \in DOMAIN a :
          /\ SubSeq(a, 1, k - 1) = SubSeq(b, 1, k - 1)
          /\ IndexIn(Digits, a[k]) < IndexIn(Digits, b[k])

\* 2^32 - 2, the largest array index
MaxArrayIndex == <<"4", "2", "9", "4", "9", "6", "7", "2", "9", "4">>

\* An own property key that is an array index, a canonical numeral of at
\* most 2^32 - 2: such keys are enumerated first, in ascending numeric order.
IsArrayIndex(key) ==
  /\ key # <<>>
  /\ \A k \in DOMAIN key : key[k] \in Digit
  /\ (Len(key) = 1 \/ key[1] # "0")
  /\ (key = MaxArrayIndex \/ NumeralBelow(key, MaxArrayIndex))

\* The entries of args whose key is an array index.
IndexEntries(args) == {i \in DOMAIN args : IsArrayIndex(args[i].key)}

\* Object.values(args)[0], absent for an empty object
FirstValue(args) ==
  IF args = <<>> THEN None
  ELSE IF IndexEntries(args) = {} THEN Some(args[1].value)
  ELSE Some(args[CHOOSE i \in IndexEntries(args) :
                   \A j \in IndexEntries(args) :
                     j = i \/ NumeralBelow(args[i].key, args[j].key)].value)

\* Whether /(\w+)=([^\s,]+)/ matches s starting at index i.
KeyValueAt(s, i) ==
  LET e == RunEnd(s, i, WordChar)
  IN e > i /\ e + 1 <= Len(s) /\ s[e] = "=" /\ s[e + 1] \notin (Space \cup {","})

\* argsStr.matchAll(/(\w+)=([^\s,]+)/g), from index p on, folded into args.
RECURSIVE KeyValues(_, _, _)
KeyValues(s, p, args) ==
  LET starts == {i \in p..Len(s) : KeyValueAt(s, i)}
  IN IF starts = {} THEN args
     ELSE LET i == CHOOSE x \in starts : \A y \in starts : x <= y
              e == RunEnd(s, i, WordChar)
              v == CHOOSE j \in (e + 2)..(Len(s) + 1) :
                     /\ \A k \in (e + 1)..(j - 1) : s[k] \notin (Space \cup {","})
                     /\ (j = Len(s) + 1 \/ s[j] \in (Space \cup {","}))
          IN KeyValues(s, v, Put(args, SubSeq(s, i, e - 1), SubSeq(s, e + 1, v - 1)))

Scratchpad == <<"s", "c", "r", "a", "t", "c", "h", "p", "a", "d">>
Planner == <<"p", "l", "a", "n", "n", "e", "r">>

\* The directive branch of parseLineContent: content starts with "!".
\* /^!(\w+)\s*(.*)/ gives the name and the argument text.
DirectiveOf(name, argsStr, pairs) ==
  IF name \in {Scratchpad, Planner} THEN Some([name |-> name, args |-> <<>>])
  ELSE IF argsStr = <<>> THEN Some([name |-> name, args |-> <<>>])
  ELSE IF pairs = <<>>
  THEN Some([name |-> name, args |-> Put(<<>>, name, argsStr)])
  ELSE Some([name |-> name, args |-> pairs])

DirectiveArgs(name, argsStr) ==
  DirectiveOf(name, Trim(argsStr), KeyValues(argsStr, 1, <<>>))

DirectiveName(content, nameEnd) ==
  IF nameEnd = 2 THEN None
  ELSE DirectiveArgs(SubSeq(content, 2, nameEnd - 1),
                     Slice(content, RunEnd(content, nameEnd, Space)))

ParseDirective(content) == DirectiveName(content, RunEnd(content, 2, WordChar))

\* The content parseLineContent extracts: what follows the dash and its white
\* space (/^\s*-\s*(.*)$/), or the bare directive (/^\s*!(.*)$/); absent for
\* any other line.
LineContent(line) ==
  LET i == RunEnd(line, 1, Space)
  IN IF i <= Len(line) /\ line[i] = "-" THEN Some(Slice(line, RunEnd(line, i + 1, Space)))
     ELSE IF i <= Len(line) /\ line[i] = "!" THEN Some(Slice(line, i))
     ELSE None

TaskOfParts(parsed, trailing) ==
  [task |-> Some(parsed.task), directive |-> None,
   diagnostics |-> parsed.diagnostics \o trailing]

ContentOf(content, directive, line, lineNo, section) ==
  IF IsSome(directive)
  THEN [task |-> None, directive |-> directive, diagnostics |-> <<>>]
  ELSE IF section = "scratchpad"
  THEN [task |-> None, directive |-> None, diagnostics |-> <<>>]
  ELSE TaskOfParts(ClassifyParts([task |-> EmptyTask, diagnostics |-> <<>>],
                                 splitTaskParts(content), 1, line, lineNo),
                   TrailingComma(content, lineNo))

ParseContent(content, line, lineNo, section) ==
  ContentOf(content,
            IF StartsWith(content, <<"!">>) THEN ParseDirective(content) ELSE None,
            line, lineNo, section)

ParseOptionalContent(content, line, lineNo, section) ==
  IF ~IsSome(content)
  THEN [task |-> None, directive |-> None, diagnostics |-> <<>>]
  ELSE ParseContent(ValueOf(content), line, lineNo, section)

parseLineContent(line, lineNo, section) ==
  ParseOptionalContent(LineContent(line), line, lineNo, section)

\* ------------------------------------------------------- times and dates

\* parseTime: the Date it returns is today's date with setHours(hours,
\* minutes, 0, 0); only its getHours() and getMinutes() are read afterwards,
\* so the value is kept as hours * 60 + minutes, the minutes after midnight
\* that setHours was given (it may pass the end of the day).  isTimePart has
\* accepted the string, so the regular expression of parseTime matches and no
\* E001-bad-time is produced on this path.
TimeOfClock(m, h0) ==
  (IF m.ampm = <<"p", "m">> /\ h0 # 12 THEN h0 + 12
   ELSE IF m.ampm = <<"a", "m">> /\ h0 = 12 THEN 0
   ELSE h0) * 60
  + (IF m.minutes = <<>> THEN 0 ELSE ParseInt(m.minutes))

TimeOfMatch(timeStr, lineNo, lower, m) ==
  IF lower = Noon THEN [value |-> Some(12 * 60), error |-> None]
  ELSE IF lower = Midnight THEN [value |-> Some(0), error |-> None]
  ELSE IF ~m.ok
  THEN [value |-> None,
        error |-> Some(Diag("E001-bad-time", "Invalid time format",
                            lineNo, 1, Len(timeStr) + 1))]
  ELSE [value |-> Some(TimeOfClock(m, ParseInt(m.hours))), error |-> None]

parseTime(timeStr, lineNo) ==
  TimeOfMatch(timeStr, lineNo, ToLowerCase(timeStr), MatchClock(timeStr))

\* The hours that setHours was given, not reduced to the hours of a day.
HoursGiven(time) == time \div 60

\* Date.prototype.getHours and getMinutes of the Date parseTime built
getHours(time) == (time \div 60) % 24
getMinutes(time) == time % 60

\* parseDuration: /^(?:(\d+)h)?(?:(\d+)m)?$/ and hours * 60 + minutes.  d1 ends
\* the leading digits, hasH tells that (\d+)h took them, from is where (\d+)m
\* starts, d2 ends its digits and hasM tells that it matched.
DurationGroups(s, lineNo, hasH, d1, from, hasM, d2) ==
  IF (IF hasM THEN d2 + 1 ELSE from) = Len(s) + 1
  THEN [value |-> Some((IF hasH THEN ParseInt(SubSeq(s, 1, d1 - 1)) ELSE 0) * 60
                       + (IF hasM THEN ParseInt(SubSeq(s, from, d2 - 1)) ELSE 0)),
        error |-> None]
  ELSE [value |-> None,
        error |-> Some(Diag("E010-bad-duration", "Invalid duration format",
                            lineNo, 1, Len(s) + 1))]

DurationMinutes(s, lineNo, hasH, d1, from, d2) ==
  DurationGroups(s, lineNo, hasH, d1, from, d2 > from /\ d2 <= Len(s) /\ s[d2] = "m", d2)

DurationHours(s, lineNo, hasH, d1, from) ==
  DurationMinutes(s, lineNo, hasH, d1, from, RunEnd(s, from, Digit))

DurationDigits(s, lineNo, d1, hasH) ==
  DurationHours(s, lineNo, hasH, d1, IF hasH THEN d1 + 1 ELSE 1)

DurationLead(s, lineNo, d1) ==
  DurationDigits(s, lineNo, d1, d1 > 1 /\ d1 <= Len(s) /\ s[d1] = "h")

parseDuration(durationStr, lineNo) ==
  DurationLead(durationStr, lineNo, RunEnd(durationStr, 1, Digit))

\* String.prototype.split('::')
RECURSIVE SplitDoubleColon(_)
SplitDoubleColon(s) ==
  LET at == {i \in 1..(Len(s) - 1) : s[i] = ":" /\ s[i + 1] = ":"}
  IN IF at = {} THEN <<s>>
     ELSE LET i == CHOOSE x \in at : \A y \in at : x <= y
          IN <<SubSeq(s, 1, i - 1)>> \o SplitDoubleColon(Slice(s, i + 2))

\* parseCategories, from the k-th category on
RECURSIVE parseCategoriesFrom(_, _, _, _)
parseCategoriesFrom(categories, k, lineNo, acc) ==
  IF k > Len(categories) THEN acc
  ELSE LET category == categories[k]
           segments == SplitDoubleColon(Slice(category, 2))
       IN parseCategoriesFrom(categories, k + 1, lineNo,
            IF ~StartsWith(category, <<":">>) THEN acc
            ELSE IF \E i \in DOMAIN segments : Trim(segments[i]) = <<>>
            THEN [acc EXCEPT !.errors =
                    Append(@, Diag("E050-bad-category", "Empty category segment",
                                   lineNo, 1, Len(category) + 1))]
            ELSE [acc EXCEPT !.categories = Append(@, [segments |-> segments])])

parseCategories(categories, lineNo) ==
  parseCategoriesFrom(categories, 1, lineNo, [categories |-> <<>>, errors |-> <<>>])

\* /^\d{4}-\d{2}-\d{2}$/
IsDayFormat(s) ==
  /\ Len(s) = 10
  /\ s[5] = "-" /\ s[8] = "-"
  /\ \A k \in {1, 2, 3, 4, 6, 7, 9, 10} : s[k] \in Digit

\* Days from 1970-01-01 to the civil date y-m-d (proleptic Gregorian).
DaysFromCivil(y, m, d) ==
  LET yy == IF m <= 2 THEN y - 1 ELSE y
      era == yy \div 400
      yoe == yy - era * 400
      mp == (m + 9) % 12
      doy == (153 * mp + 2) \div 5 + d - 1
      doe == yoe * 365 + yoe \div 4 - yoe \div 100 + doy
  IN era * 146097 + doe - 719468

\* The year of a date string: YYYY, or an expanded year, a sign and six
\* digits, other than -000000.  YearEnd is the index of its last character.
HasExpandedYear(s) ==
  /\ Len(s) >= 7
  /\ s[1] \in {"+", "-"}
  /\ \A k \in 2..7 : s[k] \in Digit
  /\ ~(s[1] = "-" /\ ParseInt(SubSeq(s, 2, 7)) = 0)
HasPlainYear(s) == Len(s) >= 4 /\ \A k \in 1..4 : s[k] \in Digit
YearEnd(s) == IF HasExpandedYear(s) THEN 7 ELSE 4
YearOf(s) ==
  IF HasExpandedYear(s)
  THEN (IF s[1] = "-" THEN 0 - ParseInt(SubSeq(s, 2, 7)) ELSE ParseInt(SubSeq(s, 2, 7)))
  ELSE ParseInt(SubSeq(s, 1, 4))

\* An instant: the whole days since 1970-01-01 and the minute of that day.
DateAt(days, minutes) == [days |-> days, minutes |-> minutes]

\* The days on either side of 1970-01-01 that a Date holds (8.64e15 ms).
DateRangeDays == 100000000

\* TimeClip of the Date constructor and of the setters: the instant when it
\* is at most DateRangeDays days from 1970-01-01, else absent (an Invalid
\* Date).
TimeClip(date) ==
  IF /\ date.days >= 0 - DateRangeDays
     /\ \/ date.days < DateRangeDays
        \/ date.days = DateRangeDays /\ date.minutes = 0
  THEN Some(date)
  ELSE None

\* a < b of two Dates
Before(a, b) == a.days < b.days \/ (a.days = b.days /\ a.minutes < b.minutes)

\* The instant n minutes after the date (before it, for a negative n), not
\* yet clipped to the range of Date.
PlusMinutes(date, n) ==
  DateAt(date.days + (n \div 1440) + ((date.minutes + (n % 1440)) \div 1440),
         (date.minutes + (n % 1440)) % 1440)

\* The local midnight of y-m-d, or absent for an Invalid Date.  The date
\* parser takes a month of 1..12 and a day of 1..31 (a day past the month's
\* end rolls into the next month), and the instant is clipped to the range
\* of Date: the last day is +275760-09-13, the first -271821-04-20.
MidnightOf(y, m, d) ==
  IF m \in 1..12 /\ d \in 1..31 THEN TimeClip(DateAt(DaysFromCivil(y, m, d), 0)) ELSE None

\* The midnight of the year y and of what follows the year in the date
\* string: nothing (the first day of the year), -MM (the first day of the
\* month) or -MM-DD.
DateAfterYear(y, rest) ==
  IF rest = <<>> THEN MidnightOf(y, 1, 1)
  ELSE IF Len(rest) = 3 /\ rest[1] = "-" /\ rest[2] \in Digit /\ rest[3] \in Digit
  THEN MidnightOf(y, ParseInt(SubSeq(rest, 2, 3)), 1)
  ELSE IF /\ Len(rest) = 6 /\ rest[1] = "-" /\ rest[4] = "-"
          /\ \A k \in {2, 3, 5, 6} : rest[k] \in Digit
  THEN MidnightOf(y, ParseInt(SubSeq(rest, 2, 3)), ParseInt(SubSeq(rest, 5, 6)))
  ELSE None

\* new Date(day + 'T00:00:00'): the local midnight of the day, or absent for
\* an Invalid Date.  The day is a date of the date-time string
\* format: a year (YYYY or expanded), a year and a month, or a year, a month
\* and a day.
DayStart(day) ==
  IF HasExpandedYear(day) \/ HasPlainYear(day)
  THEN DateAfterYear(YearOf(day), Slice(day, YearEnd(day) + 1))
  ELSE None

\* resolveTimeToDate: the configured day at the parsed hours and minutes
\* (setHours clips the instant to the range of Date); absent, an Invalid
\* Date, when the day gives one or when the time is past the last instant.
AtTime(dayStart, time) ==
  IF IsSome(dayStart)
  THEN TimeClip(PlusMinutes(ValueOf(dayStart), getHours(time) * 60 + getMinutes(time)))
  ELSE None

resolveTimeToDate(time, ctx) == AtTime(DayStart(ctx.day), time)

\* ------------------------------------------------------------ identifiers

\* One step of generateLineId's reduce, acc = <<high, low>> 16-bit halves of
\* the 32-bit value: ((acc << 5) - acc + code) & 0xffffffff.
HashStep(acc, code) ==
  LET low == acc[2] * 31 + code
  IN <<(acc[1] * 31 + low \div 65536) % 65536, low % 65536>>

RECURSIVE HashFrom(_, _, _)
HashFrom(raw, i, acc) ==
  IF i > Len(raw) THEN acc ELSE HashFrom(raw, i + 1, HashStep(acc, CharCode(raw[i])))

\* Math.abs of the signed 32-bit value with halves acc
AbsInt32(acc) ==
  IF acc[1] < 32768 THEN acc
  ELSE <<65535 - acc[1] + (IF acc[2] = 0 THEN 1 ELSE 0), (65536 - acc[2]) % 65536>>

\* The identifier made of the text of the line alone.
generateLineIdOfText(raw, index) ==
  [index |-> 0, hash |-> AbsInt32(HashFrom(raw, 1, <<0, 0>>))]

\* generateLineId: `line_${index}_${Math.abs(hash).toString(16)}`, kept as the
\* index and the two halves of the absolute hash (their rendering in the
\* string is one-to-one).
generateLineId(raw, index) ==
  [index |-> index, hash |-> AbsInt32(HashFrom(raw, 1, <<0, 0>>))]

\* --------------------------------------------------------------- analyzer

K_default == <<"d", "e", "f", "a", "u", "l", "t">>
K_policy == <<"p", "o", "l", "i", "c", "y">>
K_day == <<"d", "a", "y">>
K_tz == <<"t", "z">>
K_duration == <<"d", "u", "r", "a", "t", "i", "o", "n">>
K_overlaps == <<"o", "v", "e", "r", "l", "a", "p", "s">>
P_warning == <<"w", "a", "r", "n", "i", "n", "g">>
P_error == <<"e", "r", "r", "o", "r">>
P_ignore == <<"i", "g", "n", "o", "r", "e">>

Returns(ctx, section) == [threw |-> None, context |-> ctx, currentSection |-> section]
Throws(message, ctx, section) ==
  [threw |-> Some(message), context |-> ctx, currentSection |-> section]

\* case 'default' without its assignment: the default duration stays.
ApplyDefaultDropped(parsed, ctx, section) ==
  IF IsSome(parsed.value) /\ ValueOf(parsed.value) # 0
  THEN Returns(ctx, section)
  ELSE Throws("Error: Invalid default duration", ctx, section)

\* case 'default'
ApplyDefault(parsed, ctx, section) ==
  IF IsSome(parsed.value) /\ ValueOf(parsed.value) # 0
  THEN Returns([ctx EXCEPT !.defaultDurationMin = ValueOf(parsed.value)], section)
  ELSE Throws("Error: Invalid default duration", ctx, section)

\* case 'policy' without the test of the value: any text becomes the policy.
ApplyPolicyUnchecked(policy, ctx, section) ==
  Returns([ctx EXCEPT !.overlapPolicy = policy], section)

\* case 'policy'
ApplyPolicy(policy, ctx, section) ==
  IF policy \in {P_warning, P_error, P_ignore}
  THEN Returns([ctx EXCEPT !.overlapPolicy = policy], section)
  ELSE Throws("Error: Invalid overlap policy", ctx, section)

\* case 'day' with the assignment made before the test of the format: a
\* failing directive leaves its text in the context.
ApplyDayUnguarded(first, ctx, section) ==
  IF IsSome(first) /\ IsDayFormat(ValueOf(first))
  THEN Returns([ctx EXCEPT !.day = ValueOf(first)], section)
  ELSE Throws("Error: Invalid day format, expected YYYY-MM-DD",
              [ctx EXCEPT !.day = IF IsSome(first) THEN ValueOf(first) ELSE <<>>],
              section)

\* case 'day'
ApplyDay(first, ctx, section) ==
  IF IsSome(first) /\ IsDayFormat(ValueOf(first))
  THEN Returns([ctx EXCEPT !.day = ValueOf(first)], section)
  ELSE Throws("Error: Invalid day format, expected YYYY-MM-DD", ctx, section)

\* applyDirective on the analyzer's context and section mode: the fields
\* after the call, and the message of the Error it throws, if it throws.
applyDirective(directive, ctx, section) ==
  CASE directive.name = Scratchpad -> Returns(ctx, "scratchpad")
    [] directive.name = Planner -> Returns(ctx, "planner")
    [] directive.name = K_default ->
         IF ~HasKey(directive.args, K_duration) THEN Returns(ctx, section)
         ELSE ApplyDefault(parseDuration(Get(directive.args, K_duration), 1), ctx, section)
    [] directive.name = K_policy ->
         IF ~HasKey(directive.args, K_overlaps) THEN Returns(ctx, section)
         ELSE ApplyPolicy(Get(directive.args, K_overlaps), ctx, section)
    [] directive.name = K_day -> ApplyDay(FirstValue(directive.args), ctx, section)
    [] directive.name = K_tz ->
         Returns([ctx EXCEPT !.timezone = FirstValue(directive.args)], section)
    [] OTHER -> Throws("Error: Unknown directive", ctx, section)

\* checkOverlap with closed intervals: tasks that only touch count as
\* overlapping.
checkOverlapClosed(scheduled, start, end) ==
  \E i \in DOMAIN scheduled :
    /\ IsSome(scheduled[i].start) /\ IsSome(scheduled[i].end)
    /\ ~Before(ValueOf(scheduled[i].end), start)
    /\ ~Before(end, ValueOf(scheduled[i].start))

\* checkOverlap: some scheduled task's half-open interval intersects
\* [start, end).
checkOverlap(scheduled, start, end) ==
  \E i \in DOMAIN scheduled :
    /\ IsSome(scheduled[i].start) /\ IsSome(scheduled[i].end)
    /\ Before(start, ValueOf(scheduled[i].end))
    /\ Before(ValueOf(scheduled[i].start), end)

\* The status expression of analyzeTask and analyzeDirective.
StatusOf(diagnostics) ==
  IF \E i \in DOMAIN diagnostics : IsErrorCode(diagnostics[i].code) THEN "invalid"
  ELSE IF Len(diagnostics) > 0 THEN "valid-with-warnings"
  ELSE "valid"

Line(id, rawLine, status, diagnostics, node) ==
  [id |-> id, raw |-> rawLine.raw, lineNo |-> rawLine.lineNo, status |-> status,
   diagnostics |-> diagnostics, node |-> node]

\* /^\s*(#|\/\/)/
isCommentLine(line) ==
  LET i == RunEnd(line, 1, Space)
  IN \/ i <= Len(line) /\ line[i] = "#"
     \/ i + 1 <= Len(line) /\ line[i] = "/" /\ line[i + 1] = "/"

RawLineOf(line, lineNo, pre, isBlank, isComment, parses, lineContent, applied) ==
  [rawLine |->
     [lineNo |-> lineNo,
      raw |-> line,
      diagnostics |-> pre.diagnostics \o (IF parses THEN lineContent.diagnostics ELSE <<>>),
      hasSpaceAfterDash |-> pre.hasSpaceAfterDash,
      isBlank |-> isBlank,
      isComment |-> isComment,
      isScratchpad |-> /\ parses
                       /\ ~IsSome(lineContent.task)
                       /\ ~IsSome(lineContent.directive)
                       /\ applied.currentSection = "scratchpad",
      task |-> IF parses THEN lineContent.task ELSE None,
      directive |-> IF parses THEN lineContent.directive ELSE None],
   context |-> applied.context,
   currentSection |-> applied.currentSection]

\* The raw line built without applying the section directives at once: the
\* section mode stays what it was while the raw lines are built.
RawLineNotApplied(line, lineNo, pre, isBlank, isComment, parses, lineContent, ctx, section) ==
  RawLineOf(line, lineNo, pre, isBlank, isComment, parses, lineContent,
            Returns(ctx, section))

\* The section directives are applied at once, while the raw lines are built.
RawLineApplied(line, lineNo, pre, isBlank, isComment, parses, lineContent, ctx, section) ==
  RawLineOf(line, lineNo, pre, isBlank, isComment, parses, lineContent,
            IF /\ parses
               /\ IsSome(lineContent.directive)
               /\ ValueOf(lineContent.directive).name \in {Scratchpad, Planner}
            THEN applyDirective(ValueOf(lineContent.directive), ctx, section)
            ELSE Returns(ctx, section))

RawLineParsed(line, lineNo, pre, isBlank, isComment, parses, ctx, section) ==
  RawLineApplied(line, lineNo, pre, isBlank, isComment, parses,
                 IF parses THEN parseLineContent(line, lineNo, section)
                 ELSE [task |-> None, directive |-> None, diagnostics |-> <<>>],
                 ctx, section)

RawLineKind(line, lineNo, pre, isBlank, isComment, ctx, section) ==
  RawLineParsed(line, lineNo, pre, isBlank, isComment,
                ~isBlank /\ ~isComment /\ IsSome(LineContent(line)), ctx, section)

\* One iteration of parseLinesToRaw's loop: the raw line of lines[index], and
\* the context and the section mode after it.
parseLineToRaw(line, index, pre, ctx, section) ==
  RawLineKind(line, index + 1, pre, Trim(line) = <<>>, isCommentLine(line), ctx, section)

DirectiveLine(rawLine, id, directive, applied, diagnostics) ==
  [line |-> Line(id, rawLine, StatusOf(diagnostics), diagnostics,
                 Some([kind |-> "directive", name |-> directive.name,
                       args |-> directive.args])),
   context |-> applied.context,
   currentSection |-> applied.currentSection]

DirectiveApplied(rawLine, id, directive, applied) ==
  DirectiveLine(rawLine, id, directive, applied,
                IF IsSome(applied.threw)
                THEN Append(rawLine.diagnostics,
                            Diag("E040-unknown-directive", ValueOf(applied.threw),
                                 rawLine.lineNo, 1, Len(rawLine.raw) + 1))
                ELSE rawLine.diagnostics)

\* analyzeDirective: the analyzed line, and the context and section mode
\* after the directive was applied once more.
analyzeDirective(rawLine, id, ctx, section) ==
  DirectiveApplied(rawLine, id, ValueOf(rawLine.directive),
                   applyDirective(ValueOf(rawLine.directive), ctx, section))

\* The committal rule without its error test: every task with an end commits.
CommitsWithErrors(hasErrors, end) == IsSome(end)

\* The committal rule at the end of analyzeTask: the task moves the cursor
\* and joins the scheduled set.
Commits(hasErrors, end) == ~hasErrors /\ IsSome(end)

\* The overlap diagnostic of analyzeTask for a task with a start and an end.
OverlapDiagnostics(policy, scheduled, start, end, rawLine) ==
  IF policy # P_ignore /\ checkOverlap(scheduled, start, end)
  THEN <<Diag(IF policy = P_error THEN "E030-overlap" ELSE "W010-overlap",
              "Task overlaps with previous task",
              rawLine.lineNo, 1, Len(rawLine.raw) + 1)>>
  ELSE <<>>

\* The start of analyzeTask with a fallback in place of the missing-start
\* error: a task without a time and without a cursor starts the day.
ResolveStartAtMidnight(parsedTime, ctx, cursor) ==
  IF IsSome(parsedTime) /\ IsSome(ValueOf(parsedTime).value)
  THEN [start |-> resolveTimeToDate(ValueOf(ValueOf(parsedTime).value), ctx),
        explicitStart |-> TRUE,
        invalid |-> ~IsSome(resolveTimeToDate(ValueOf(ValueOf(parsedTime).value), ctx))]
  ELSE IF IsSome(cursor) THEN [start |-> cursor, explicitStart |-> FALSE, invalid |-> FALSE]
  ELSE [start |-> Some(DateAt(0, 0)), explicitStart |-> FALSE, invalid |-> FALSE]

ExplicitStart(start) == [start |-> start, explicitStart |-> TRUE, invalid |-> ~IsSome(start)]

\* The start of analyzeTask: the explicit time on the configured day, else the
\* cursor, else none.  invalid: the start is an Invalid Date (the configured
\* day is one, or the time on it is past the range of Date), so that
\* start.toISOString() throws a RangeError.
ResolveStart(parsedTime, ctx, cursor) ==
  IF IsSome(parsedTime) /\ IsSome(ValueOf(parsedTime).value)
  THEN ExplicitStart(resolveTimeToDate(ValueOf(ValueOf(parsedTime).value), ctx))
  ELSE [start |-> cursor, explicitStart |-> FALSE, invalid |-> FALSE]

\* The duration of analyzeTask: the parsed value, else the context's default.
ResolveDuration(parsedDuration, ctx) ==
  IF IsSome(parsedDuration) /\ IsSome(ValueOf(parsedDuration).value)
  THEN [durationMin |-> ValueOf(ValueOf(parsedDuration).value), explicitDuration |-> TRUE]
  ELSE [durationMin |-> ctx.defaultDurationMin, explicitDuration |-> FALSE]

\* The end computed with the minutes taken for hours.
EndOfInHours(start, durationMin) ==
  IF IsSome(start) THEN TimeClip(PlusMinutes(ValueOf(start), durationMin * 60)) ELSE None

\* new Date(start.getTime() + durationMin * 60 * 1000): absent for a task
\* without a start, and for an end past the range of Date (an Invalid Date).
EndOf(start, durationMin) ==
  IF IsSome(start) THEN TimeClip(PlusMinutes(ValueOf(start), durationMin)) ELSE None

\* The end is an Invalid Date: the task has a start and its end is past the
\* range of Date, so that end.toISOString() throws a RangeError.
InvalidEnd(start, end) == IsSome(start) /\ ~IsSome(end)

\* task.titleParts.join(' ').trim() || 'Untitled'
TitleOrUntitled(title) ==
  IF title = <<>> THEN <<"U", "n", "t", "i", "t", "l", "e", "d">> ELSE title
TitleOf(titleParts) == TitleOrUntitled(Trim(JoinSpace(titleParts)))

\* The error of a parsed component, as the diagnostics it adds.
ErrorOf(parsed) ==
  IF IsSome(parsed) /\ IsSome(ValueOf(parsed).error)
  THEN <<ValueOf(ValueOf(parsed).error)>> ELSE <<>>

\* The error test of analyzeTask taken over every diagnostic: a warning
\* counts as an error.
HasDiagnostics(diagnostics) == diagnostics # <<>>

HasErrors(diagnostics) == \E i \in DOMAIN diagnostics : IsErrorCode(diagnostics[i].code)

\* The end of analyzeTask with the scheduled set updated outside the error
\* test: a line with an end is scheduled even when it is invalid.
TaskLineAlwaysScheduled(rawLine, id, cursor, scheduled, diagnostics, taskNode, commits, threw) ==
  [threw |-> threw,
   line |-> Line(id, rawLine, StatusOf(diagnostics), diagnostics, Some(taskNode)),
   cursorTime |-> IF commits THEN taskNode.end ELSE cursor,
   tasks |-> IF IsSome(taskNode.end) THEN Append(scheduled, taskNode) ELSE scheduled]

\* The end of analyzeTask: the cursor and the scheduled set are updated, the
\* status is derived and the line is returned.
TaskLine(rawLine, id, cursor, scheduled, diagnostics, taskNode, commits, threw) ==
  [threw |-> threw,
   line |-> Line(id, rawLine, StatusOf(diagnostics), diagnostics, Some(taskNode)),
   cursorTime |-> IF commits THEN taskNode.end ELSE cursor,
   tasks |-> IF commits THEN Append(scheduled, taskNode) ELSE scheduled]

\* The end of analyzeTask with the cursor moved to the start of the committed
\* task instead of its end.
TaskCommitAtStart(rawLine, id, cursor, scheduled, diagnostics, taskNode, threw) ==
  [TaskLine(rawLine, id, cursor, scheduled, diagnostics, taskNode,
            Commits(HasErrors(diagnostics), taskNode.end), threw)
     EXCEPT !.cursorTime = IF Commits(HasErrors(diagnostics), taskNode.end)
                           THEN taskNode.start ELSE cursor]

TaskCommit(rawLine, id, cursor, scheduled, diagnostics, taskNode, threw) ==
  TaskLine(rawLine, id, cursor, scheduled, diagnostics, taskNode,
           Commits(HasErrors(diagnostics), taskNode.end), threw)

\* The overlap check and the node of analyzeTask.
TaskNodeOf(rawLine, id, ctx, cursor, scheduled, categories, d2, rs, dur, end) ==
  TaskCommit(rawLine, id, cursor, scheduled,
             IF IsSome(rs.start) /\ IsSome(end)
             THEN d2 \o OverlapDiagnostics(ctx.overlapPolicy, scheduled,
                                           ValueOf(rs.start), ValueOf(end), rawLine)
             ELSE d2,
             [kind |-> "task",
              title |-> TitleOf(ValueOf(rawLine.task).titleParts),
              start |-> rs.start,
              durationMin |-> dur.durationMin,
              end |-> end,
              categories |-> categories,
              explicitStart |-> rs.explicitStart,
              explicitDuration |-> dur.explicitDuration],
             rs.invalid \/ InvalidEnd(rs.start, end))

\* The start, the duration and the end of analyzeTask.
TaskResolved(rawLine, id, ctx, cursor, scheduled, categories, d1, rs, dur) ==
  TaskNodeOf(rawLine, id, ctx, cursor, scheduled, categories,
             IF IsSome(rs.start) \/ rs.invalid THEN d1
             ELSE Append(d1, Diag("E020-missing-start-first-line",
                                  "First task must have an explicit start time",
                                  rawLine.lineNo, 1, Len(rawLine.raw) + 1)),
             rs, dur, EndOf(rs.start, dur.durationMin))

\* The parsing errors of analyzeTask are collected.
TaskParsed(rawLine, id, ctx, cursor, scheduled, parsedTime, parsedDuration, parsedCategories) ==
  TaskResolved(rawLine, id, ctx, cursor, scheduled, parsedCategories.categories,
               rawLine.diagnostics \o ErrorOf(parsedTime) \o ErrorOf(parsedDuration)
                 \o parsedCategories.errors,
               ResolveStart(parsedTime, ctx, cursor),
               ResolveDuration(parsedDuration, ctx))

\* analyzeTask: the analyzed line, and the cursor and scheduled set after it;
\* threw when building the node throws, its start or its end being an
\* Invalid Date (the fields are then not returned).
analyzeTask(rawLine, id, ctx, cursor, scheduled) ==
  TaskParsed(rawLine, id, ctx, cursor, scheduled,
             IF IsSome(ValueOf(rawLine.task).time)
             THEN Some(parseTime(ValueOf(ValueOf(rawLine.task).time), rawLine.lineNo))
             ELSE None,
             IF IsSome(ValueOf(rawLine.task).duration)
             THEN Some(parseDuration(ValueOf(ValueOf(rawLine.task).duration), rawLine.lineNo))
             ELSE None,
             parseCategories(ValueOf(rawLine.task).categories, rawLine.lineNo))

\* parseTimeString of parser-utils with the match m of
\* /^(\d{1,2})(?::(\d{2}))?(?:(am|pm))?$/i and the parsed hours and minutes:
\* the ranges are tested, then am and pm are applied.
ParserUtilsClock(m, hours, minutes) ==
  IF hours > 23 \/ minutes > 59 THEN None
  ELSE IF m.ampm # <<>> /\ (hours < 1 \/ hours > 12) THEN None
  ELSE Some([hours |-> IF m.ampm = <<"p", "m">> /\ hours # 12 THEN hours + 12
                       ELSE IF m.ampm = <<"a", "m">> /\ hours = 12 THEN 0
                       ELSE hours,
             minutes |-> minutes])

ParserUtilsMatched(lower, m) ==
  IF lower = Noon THEN Some([hours |-> 12, minutes |-> 0])
  ELSE IF lower = Midnight THEN Some([hours |-> 0, minutes |-> 0])
  ELSE IF ~m.ok THEN None
  ELSE ParserUtilsClock(m, ParseInt(m.hours),
                        IF m.minutes = <<>> THEN 0 ELSE ParseInt(m.minutes))

\* parseTimeString of parser-utils: the hours and minutes, or null
ParserUtilsParseTimeString(timeStr) ==
  ParserUtilsMatched(ToLowerCase(timeStr), MatchClock(timeStr))

\* ------------------------------------------------- time-shift utilities

\* a % b of JavaScript for b > 0: the remainder has the sign of a.
JsRem(a, b) == IF a >= 0 THEN a % b ELSE 0 - ((0 - a) % b)

\* The end of /^([+-])(?:(\d+)h)?(?:(\d+)m)?$/ after the sign and the optional
\* hours: nothing more, or digits (ending before dEnd) and "m" up to the end.
OffsetMinutes(sign, hours, rest, dEnd) ==
  IF rest = <<>>
  THEN Some([hours |-> hours, minutes |-> 0, sign |-> sign])
  ELSE IF dEnd > 1 /\ dEnd = Len(rest) /\ rest[dEnd] = "m"
  THEN Some([hours |-> hours, minutes |-> ParseInt(SubSeq(rest, 1, dEnd - 1)),
             sign |-> sign])
  ELSE None

\* (?:(\d+)h)? on the text after the sign, its digits ending before dEnd
OffsetHours(sign, rest, dEnd) ==
  IF dEnd > 1 /\ dEnd <= Len(rest) /\ rest[dEnd] = "h"
  THEN OffsetMinutes(sign, ParseInt(SubSeq(rest, 1, dEnd - 1)), Slice(rest, dEnd + 1),
                     RunEnd(Slice(rest, dEnd + 1), 1, Digit))
  ELSE OffsetMinutes(sign, 0, rest, dEnd)

\* /^([+-])(?:(\d+)h)?(?:(\d+)m)?$/ and the TimeOffset of its groups
OffsetMatch(offset) ==
  IF offset # <<>> /\ offset[1] \in {"+", "-"}
  THEN OffsetHours(IF offset[1] = "+" THEN 1 ELSE -1, Tail(offset),
                   RunEnd(Tail(offset), 1, Digit))
  ELSE None

\* The match as it is, a zero offset included.
NonZeroOffsetKept(match) == match

\* hours === 0 && minutes === 0 gives null
NonZeroOffset(match) ==
  IF IsSome(match) /\ ValueOf(match).hours = 0 /\ ValueOf(match).minutes = 0
  THEN None
  ELSE match

\* parseTimeOffset: the TimeOffset of "+10m", "-1h30m", "+2h", or null
parseTimeOffset(offset) == NonZeroOffset(OffsetMatch(offset))

\* validateTimeOffset with the offset parsed
ValidatedOffset(offset, parsed) ==
  IF Trim(offset) = <<>>
  THEN [valid |-> FALSE, error |-> Some("Offset cannot be empty")]
  ELSE IF ~IsSome(parsed)
  THEN [valid |-> FALSE,
        error |-> Some("Invalid offset format. Use +/-[Nh][Nm] (e.g., +10m, -1h30m, +2h)")]
  ELSE IF ValueOf(parsed).hours * 60 + ValueOf(parsed).minutes > 12 * 60
  THEN [valid |-> FALSE, error |-> Some("Offset too large (max 12 hours)")]
  ELSE [valid |-> TRUE, error |-> None]

validateTimeOffset(offset) == ValidatedOffset(offset, parseTimeOffset(offset))

\* (offset.hours * 60 + offset.minutes) * offset.sign
TotalMinutes(offset) == (offset.hours * 60 + offset.minutes) * offset.sign

ParsedTime(hours, minutes, format) ==
  [success |-> TRUE, hours |-> hours, minutes |-> minutes, format |-> format]

\* The 12-hour branch of parseTimeString: am and pm applied to the hour h0,
\* no range checked.
AmPmTime(m, h0) ==
  ParsedTime(IF m.ampm = <<"p", "m">> /\ h0 # 12 THEN h0 + 12
             ELSE IF m.ampm = <<"a", "m">> /\ h0 = 12 THEN 0
             ELSE h0,
             IF m.minutes = <<>> THEN 0 ELSE ParseInt(m.minutes),
             "clock12")

\* The 24-hour branch of parseTimeString: /^(\d{1,2}):(\d{2})$/ and the
\* ranges of hour and minute.
Clock24Time(m) ==
  IF /\ m.ok /\ m.minutes # <<>> /\ m.ampm = <<>>
     /\ ParseInt(m.hours) <= 23 /\ ParseInt(m.minutes) <= 59
  THEN ParsedTime(ParseInt(m.hours), ParseInt(m.minutes), "clock24")
  ELSE [success |-> FALSE]

\* parseTimeString with the trimmed lower-cased text and its match m of
\* /^(\d{1,2})(?::(\d{2}))?(am|pm)$/; the 24-hour pattern is tried on the text
\* as given.
ParsedTimeOf(timeStr, lower, m) ==
  IF lower = Noon THEN ParsedTime(12, 0, "word")
  ELSE IF lower = Midnight THEN ParsedTime(0, 0, "word")
  ELSE IF m.ok /\ m.ampm # <<>> THEN AmPmTime(m, ParseInt(m.hours))
  ELSE Clock24Time(ClockLower(timeStr))

ParsedLower(timeStr, lower) == ParsedTimeOf(timeStr, lower, ClockLower(lower))

\* parseTimeString of time-utils: "9am", "9:30pm", "14:30", "noon", "midnight"
parseTimeString(timeStr) == ParsedLower(timeStr, Trim(ToLowerCase(timeStr)))

\* Number.prototype.toString() of an integer
RECURSIVE NumberToString(_)
NumberToString(n) ==
  IF n < 0 THEN <<"-">> \o NumberToString(0 - n)
  ELSE IF n < 10 THEN <<Digits[n + 1]>>
  ELSE NumberToString(n \div 10) \o <<Digits[(n % 10) + 1]>>

\* String.prototype.padStart(2, '0')
PadStart2(s) == IF Len(s) < 2 THEN <<"0">> \o s ELSE s

\* The 12-hour text with the hour 12 counted to the morning.
Clock12TextNoonAm(hours, minutes) ==
  NumberToString(IF hours = 0 THEN 12 ELSE IF hours > 12 THEN hours - 12 ELSE hours)
    \o (IF minutes = 0 THEN <<>> ELSE <<":">> \o PadStart2(NumberToString(minutes)))
    \o (IF hours > 12 THEN <<"p", "m">> ELSE <<"a", "m">>)

\* The 12-hour text of hours:minutes, the hour 0 shown as 12 and the hours
\* above 12 less 12, the minutes left out when 0.
Clock12Text(hours, minutes) ==
  NumberToString(IF hours = 0 THEN 12 ELSE IF hours > 12 THEN hours - 12 ELSE hours)
    \o (IF minutes = 0 THEN <<>> ELSE <<":">> \o PadStart2(NumberToString(minutes)))
    \o (IF hours >= 12 THEN <<"p", "m">> ELSE <<"a", "m">>)

\* formatTimeString: the text of hours:minutes in the style of the original
formatTimeString(hours, minutes, format) ==
  IF hours = 12 /\ minutes = 0 /\ format = "word" THEN Noon
  ELSE IF hours = 0 /\ minutes = 0 /\ format = "word" THEN Midnight
  ELSE IF format = "clock24"
  THEN PadStart2(NumberToString(hours)) \o <<":">> \o PadStart2(NumberToString(minutes))
  ELSE Clock12Text(hours, minutes)

\* The two while loops of applyTimeOffsetToTimeString: minutes brought into
\* 0..59, the hours carried.
RECURSIVE CarryMinutes(_, _)
CarryMinutes(newHours, newMinutes) ==
  IF newMinutes >= 60 THEN CarryMinutes(newHours + 1, newMinutes - 60)
  ELSE IF newMinutes < 0 THEN CarryMinutes(newHours - 1, newMinutes + 60)
  ELSE [hours |-> newHours, minutes |-> newMinutes]

\* The hours left as the carry gave them, without the 24-hour cycle.
WrapHoursNot(newHours) == newHours

\* newHours = ((newHours % 24) + 24) % 24
WrapHours(newHours) == JsRem(JsRem(newHours, 24) + 24, 24)

ShiftedTime(carried, format) ==
  [success |-> TRUE,
   newTime |-> Some(formatTimeString(WrapHours(carried.hours), carried.minutes, format)),
   error |-> None]

\* applyTimeOffsetToTimeString with the time string parsed.  The error text
\* is `Invalid time format: ${timeStr}` without the time string.
ShiftParsedTime(parsed, offset) ==
  IF ~parsed.success
  THEN [success |-> FALSE, newTime |-> None, error |-> Some("Invalid time format")]
  ELSE ShiftedTime(CarryMinutes(parsed.hours, parsed.minutes + TotalMinutes(offset)),
                   parsed.format)

\* applyTimeOffsetToTimeString: the time string moved by a TimeOffset
applyTimeOffsetToTimeString(timeStr, offset) ==
  ShiftParsedTime(parseTimeString(timeStr), offset)

\* ------------------------------------------------------------ the lexer

\* The character at index i of the text, "" past its end.
At(text, i) == IF i \in DOMAIN text THEN text[i] ELSE ""

\* [^\s,:#\r\n], the characters of a Text token
TextChar(c) == c # "" /\ c \notin Space \cup {",", ":", "#"}

\* The end (the index after the last character) of the Duration token
\* /\d+h(?:\d{1,2}m)?|\d+m/ at i, whose leading digits end before d and whose
\* digits after the "h" end before d2; 0 when there is none.
DurationEnd(text, i, d, d2) ==
  IF d > i /\ At(text, d) = "h"
  THEN IF d2 - (d + 1) \in 1..2 /\ At(text, d2) = "m" THEN d2 + 1 ELSE d + 1
  ELSE IF d > i /\ At(text, d) = "m" THEN d + 1
  ELSE 0

DurationAt(text, i, d) == DurationEnd(text, i, d, RunEnd(text, d + 1, Digit))

\* (?:am|pm)? of the TimeClock pattern at m, case-insensitive
TimeClockSuffix(text, m) ==
  IF ToLowerChar(At(text, m)) \in {"a", "p"} /\ ToLowerChar(At(text, m + 1)) = "m"
  THEN m + 2 ELSE m

\* The end of the TimeClock token /(?:\d{1,2}(?::\d{2})?(?:am|pm)?|\d{2}:\d{2})/i
\* whose one or two leading digits end before p.
TimeClockEnd(text, p) ==
  TimeClockSuffix(text,
                  IF At(text, p) = ":" /\ At(text, p + 1) \in Digit /\ At(text, p + 2) \in Digit
                  THEN p + 3 ELSE p)

\* The end of the Text token /[^\s,:#\r\n]+/ at i
TextEnd(text, i) ==
  CHOOSE j \in (i + 1)..(Len(text) + 1) :
    (\A k \in i..(j - 1) : TextChar(text[k])) /\ ~TextChar(At(text, j))

\* The token at index i, c being the character there and dur the end of a
\* Duration token there: the first pattern of allTokens that matches, with
\* the index after its last character.
TokenWith(text, i, c, dur) ==
  IF c \in Space THEN [type |-> "WhiteSpace", end |-> RunEnd(text, i, Space)]
  ELSE IF c = "#" THEN [type |-> "HashComment", end |-> Len(text) + 1]
  ELSE IF c = "/" /\ At(text, i + 1) = "/"
  THEN [type |-> "SlashComment", end |-> Len(text) + 1]
  ELSE IF c = "-" THEN [type |-> "Dash", end |-> i + 1]
  ELSE IF c = "!" THEN [type |-> "Bang", end |-> i + 1]
  ELSE IF c = "," THEN [type |-> "Comma", end |-> i + 1]
  ELSE IF c = "=" THEN [type |-> "Equals", end |-> i + 1]
  ELSE IF c = ":" /\ At(text, i + 1) = ":" THEN [type |-> "CategoryDouble", end |-> i + 2]
  ELSE IF c = ":" THEN [type |-> "CategoryColon", end |-> i + 1]
  ELSE IF i + 3 <= Len(text) /\ ToLowerCase(SubSeq(text, i, i + 3)) = Noon
  THEN [type |-> "TimeWord", end |-> i + 4]
  ELSE IF i + 7 <= Len(text) /\ ToLowerCase(SubSeq(text, i, i + 7)) = Midnight
  THEN [type |-> "TimeWord", end |-> i + 8]
  ELSE IF dur # 0 THEN [type |-> "Duration", end |-> dur]
  ELSE IF c \in Digit
  THEN [type |-> "TimeClock",
        end |-> TimeClockEnd(text, IF At(text, i + 1) \in Digit THEN i + 2 ELSE i + 1)]
  ELSE IF /\ i + 9 <= Len(text) /\ SubSeq(text, i, i + 9) = Scratchpad
          /\ RunEnd(text, i, IdentChar) = i + 10
  THEN [type |-> "ScratchpadDirective", end |-> i + 10]
  ELSE IF /\ i + 6 <= Len(text) /\ SubSeq(text, i, i + 6) = Planner
          /\ RunEnd(text, i, IdentChar) = i + 7
  THEN [type |-> "PlannerDirective", end |-> i + 7]
  ELSE IF c \in IdentChar THEN [type |-> "Identifier", end |-> RunEnd(text, i, IdentChar)]
  ELSE IF TextChar(c) THEN [type |-> "Text", end |-> TextEnd(text, i)]
  ELSE [type |-> "error", end |-> i + 1]

TokenAt(text, i) == TokenWith(text, i, text[i], DurationAt(text, i, RunEnd(text, i, Digit)))

\* lexer.tokenize from index i: the tokens with their type, image and
\* offsets (startOffset, and endOffset + 1), white space skipped.
RECURSIVE TokensFrom(_, _)
RECURSIVE TokensAfter(_, _, _)
TokensAfter(text, i, token) ==
  IF token.type \in {"WhiteSpace", "error"} THEN TokensFrom(text, token.end)
  ELSE <<[type |-> token.type, image |-> SubSeq(text, i, token.end - 1),
          start |-> i - 1, end |-> token.end - 1]>>
       \o TokensFrom(text, token.end)

TokensFrom(text, i) ==
  IF i > Len(text) THEN <<>> ELSE TokensAfter(text, i, TokenAt(text, i))

\* tokenize of the text of one line: the tokens of the preprocessed line
tokenize(line) == TokensFrom(preprocessLine(line, 1).processedLine, 1)

\* The first of the tokens that is a TimeClock or a TimeWord, times being the
\* indexes of these.
FirstTimeToken(tokens, times) ==
  IF times = {} THEN None
  ELSE Some([timeStr |-> tokens[CHOOSE k \in times : \A j \in times : k <= j].image,
             start |-> tokens[CHOOSE k \in times : \A j \in times : k <= j].start,
             end |-> tokens[CHOOSE k \in times : \A j \in times : k <= j].end])

TimeTokenIn(tokens) ==
  FirstTimeToken(tokens, {k \in DOMAIN tokens : tokens[k].type \in {"TimeClock", "TimeWord"}})

\* findTimeTokenInLine: the first time token of the line, or null
findTimeTokenInLine(line) == TimeTokenIn(tokenize(line))

HasDash(tokens) == \E k \in DOMAIN tokens : tokens[k].type = "Dash"

\* validateTaskLineFormat(line).valid: the line has a Dash token
validateTaskLineFormat(line) == HasDash(tokenize(line))

\* ------------------------------------------------- the time-shift engine

\* String.prototype.substring(0, end) and substring(start) with 0-based
\* offsets, which JavaScript clamps to the length of the string.
SubstringTo(s, end) == SubSeq(s, 1, IF end > Len(s) THEN Len(s) ELSE end)
SubstringFrom(s, start) == IF start >= Len(s) THEN <<>> ELSE SubSeq(s, start + 1, Len(s))

\* A failure reported as a success.
FailedAsShifted(error) == [success |-> TRUE, newLineContent |-> None, error |-> Some(error)]

\* { success: false, error } and { success: true, newLineContent }
Failed(error) == [success |-> FALSE, newLineContent |-> None, error |-> Some(error)]
Shifted(newLine) == [success |-> TRUE, newLineContent |-> Some(newLine), error |-> None]

\* formatTimeForInsertion: the local time of day of a Date as a time token,
\* noon and midnight as words, any other time in 12-hour form; the hours and
\* the minutes of an Invalid Date are NaN, which gives "NaN:NaNam".
formatTimeForInsertion(date) ==
  IF ~IsSome(date) THEN <<"N", "a", "N", ":", "N", "a", "N", "a", "m">>
  ELSE IF getHours(ValueOf(date).minutes) = 12 /\ getMinutes(ValueOf(date).minutes) = 0
  THEN Noon
  ELSE IF getHours(ValueOf(date).minutes) = 0 /\ getMinutes(ValueOf(date).minutes) = 0
  THEN Midnight
  ELSE Clock12Text(getHours(ValueOf(date).minutes), getMinutes(ValueOf(date).minutes))

\* The new line of a task with an explicit start:
\* rawLine.substring(0, timeToken.start) + newTime + rawLine.substring(timeToken.end)
SpliceTime(rawLine, timeToken, newTime) ==
  SubstringTo(rawLine, timeToken.start) \o newTime \o SubstringFrom(rawLine, timeToken.end)

\* The prefix of /^(\s*-\s*)(.*)/ ends before prefixEnd.
PrefixEnd(rawLine) == RunEnd(rawLine, RunEnd(rawLine, 1, Space) + 1, Space)

\* The time put after the marker with a space and no comma.
InsertTimeBare(rawLine, newTimeStr) ==
  SubSeq(rawLine, 1, PrefixEnd(rawLine) - 1) \o newTimeStr \o <<" ">>
    \o Slice(rawLine, PrefixEnd(rawLine))

\* The new line of a task with an inherited start:
\* `${prefix}${newTimeStr}, ${content}`.
InsertTime(rawLine, newTimeStr) ==
  SubSeq(rawLine, 1, PrefixEnd(rawLine) - 1) \o newTimeStr \o <<",", " ">>
    \o Slice(rawLine, PrefixEnd(rawLine))

ShiftSpliced(rawLine, timeToken, shiftResult) ==
  IF ~shiftResult.success THEN Failed(ValueOf(shiftResult.error))
  ELSE Shifted(SpliceTime(rawLine, timeToken, ValueOf(shiftResult.newTime)))

\* shiftTaskTime of a task with an explicit start
ShiftExplicit(rawLine, timeToken, parsedOffset) ==
  IF ~IsSome(timeToken) THEN Failed("Could not locate time in line to modify")
  ELSE ShiftSpliced(rawLine, ValueOf(timeToken),
                    applyTimeOffsetToTimeString(ValueOf(timeToken).timeStr, parsedOffset))

\* shiftTaskTime of a task with an inherited start: setMinutes moves the
\* start by the offset and clips it to the range of Date.
ShiftInherited(rawLine, start, parsedOffset) ==
  IF At(rawLine, RunEnd(rawLine, 1, Space)) # "-" THEN Failed("Invalid task line format")
  ELSE Shifted(InsertTime(rawLine,
                          formatTimeForInsertion(
                            TimeClip(PlusMinutes(start, TotalMinutes(parsedOffset))))))

ShiftParsed(rawLine, task, parsedOffset) ==
  IF ~IsSome(parsedOffset) THEN Failed("Invalid offset format")
  ELSE IF task.explicitStart /\ IsSome(task.start)
  THEN ShiftExplicit(rawLine, findTimeTokenInLine(rawLine), ValueOf(parsedOffset))
  ELSE IF ~task.explicitStart /\ IsSome(task.start)
  THEN ShiftInherited(rawLine, ValueOf(task.start), ValueOf(parsedOffset))
  ELSE Failed("Task has no time information to shift")

\* shiftTaskTime: the task's time moved in the raw text of its line
shiftTaskTime(rawLine, task, offset) == ShiftParsed(rawLine, task, parseTimeOffset(offset))

IsTaskLine(line) == IsSome(line.node) /\ ValueOf(line.node).kind = "task"

\* The loop without its break: every later task line without explicit start.
RECURSIVE AffectedToEnd(_, _)
AffectedToEnd(allLines, i) ==
  IF i > Len(allLines) THEN <<>>
  ELSE IF IsTaskLine(allLines[i]) /\ ~ValueOf(allLines[i].node).explicitStart
  THEN <<allLines[i].id>> \o AffectedToEnd(allLines, i + 1)
  ELSE AffectedToEnd(allLines, i + 1)

\* The loop of findAffectedLines from index i (1-based): the ids of the task
\* lines without explicit start, up to the first task line with one.
RECURSIVE AffectedFrom(_, _)
AffectedFrom(allLines, i) ==
  IF i > Len(allLines) THEN <<>>
  ELSE IF IsTaskLine(allLines[i]) /\ ValueOf(allLines[i].node).explicitStart THEN <<>>
  ELSE IF IsTaskLine(allLines[i]) THEN <<allLines[i].id>> \o AffectedFrom(allLines, i + 1)
  ELSE AffectedFrom(allLines, i + 1)

\* The first index of the line with the id, 0 when there is none: findIndex
\* and find of an array of lines.
IndexOfId(lines, id) ==
  IF \E k \in DOMAIN lines : lines[k].id = id
  THEN CHOOSE k \in DOMAIN lines :
         lines[k].id = id /\ \A j \in DOMAIN lines : lines[j].id = id => k <= j
  ELSE 0

\* findAffectedLines
findAffectedLines(shiftedLine, allLines) ==
  IF IndexOfId(allLines, shiftedLine.id) = 0 THEN <<>>
  ELSE AffectedFrom(allLines, IndexOfId(allLines, shiftedLine.id) + 1)

WithAffected(result, affectedLines) ==
  [success |-> result.success, newLineContent |-> result.newLineContent,
   error |-> result.error, affectedLines |-> affectedLines]

ShiftOutcome(line, allLines, shiftResult) ==
  IF ~shiftResult.success THEN WithAffected(shiftResult, None)
  ELSE WithAffected(shiftResult, Some(findAffectedLines(line, allLines)))

\* executeTimeShift with the offset validated
ShiftChecked(line, offset, allLines, validation) ==
  IF ~validation.valid THEN WithAffected(Failed(ValueOf(validation.error)), None)
  ELSE IF ~IsTaskLine(line)
  THEN WithAffected(Failed("Time shift can only be applied to task lines"), None)
  ELSE IF ~validateTaskLineFormat(line.raw)
  THEN WithAffected(Failed("Invalid task line format - missing dash or malformed syntax"),
                    None)
  ELSE ShiftOutcome(line, allLines, shiftTaskTime(line.raw, ValueOf(line.node), offset))

\* executeTimeShift(line, offset, allLines)
executeTimeShift(line, offset, allLines) ==
  ShiftChecked(line, offset, allLines, validateTimeOffset(offset))

\* The last index of the line with the id: results.set(line.id, result) keeps
\* the result of the last line with an id.
LastIndexOfId(lines, id) ==
  CHOOSE k \in DOMAIN lines :
    lines[k].id = id /\ \A j \in DOMAIN lines : lines[j].id = id => j <= k

\* The outcome of executeBatchTimeShift, results being the Map of the results
\* by line id (a function on the ids) and hasErrors the flag the loop sets
\* for any line whose shift failed, whether or not a later line with the
\* same id replaced its entry in the Map.
BatchOf(validation, results, hasErrors) ==
  IF ~validation.valid
  THEN [success |-> FALSE, results |-> <<>>, error |-> validation.error]
  ELSE [success |-> ~hasErrors,
        results |-> results,
        error |-> IF hasErrors THEN Some("Some lines failed to shift") ELSE None]

\* executeBatchTimeShift(lines, offset): every line shifted against the lines
\* given, its result set in the Map under its id.
executeBatchTimeShift(lines, offset) ==
  BatchOf(validateTimeOffset(offset),
          [id \in {lines[k].id : k \in DOMAIN lines} |->
             executeTimeShift(lines[LastIndexOfId(lines, id)], offset, lines)],
          \E k \in DOMAIN lines : ~executeTimeShift(lines[k], offset, lines).success)

\* The line numbers of the lines with the ids
LineNumbers(program, ids) ==
  [k \in DOMAIN ids |-> program[IndexOfId(program, ids[k])].lineNo]

\* The content with the line at lineNumber replaced.  The content is kept as
\* its lines, which the service splits on the line terminators and joins
\* again with "\n".
ShiftTimeOutcome(content, program, lineNumber, shiftResult) ==
  IF ~shiftResult.success
  THEN [success |-> FALSE, newContent |-> None, error |-> shiftResult.error,
        affectedLines |-> None]
  ELSE [success |-> TRUE,
        newContent |-> Some([content EXCEPT
                               ![lineNumber] = ValueOf(shiftResult.newLineContent)]),
        error |-> None,
        affectedLines |-> Some(LineNumbers(program, ValueOf(shiftResult.affectedLines)))]

ShiftTimeValidated(content, program, lineNumber, offset, validation) ==
  IF ~validation.valid
  THEN [success |-> FALSE, newContent |-> None, error |-> validation.error,
        affectedLines |-> None]
  ELSE IF lineNumber \notin DOMAIN program
  THEN [success |-> FALSE, newContent |-> None, error |-> Some("Line not found"),
        affectedLines |-> None]
  ELSE ShiftTimeOutcome(content, program, lineNumber,
                        executeTimeShift(program[lineNumber], offset, program))

\* shiftTime of the language service, program being the lines of
\* analyzeDocument(content)
shiftTime(content, program, lineNumber, offset) ==
  ShiftTimeValidated(content, program, lineNumber, offset, validateTimeOffset(offset))

\* lineNumbers.map(n => program.lines[n - 1]).filter(Boolean)
RECURSIVE LinesAt(_, _)
LinesAt(program, lineNumbers) ==
  IF lineNumbers = <<>> THEN <<>>
  ELSE (IF Head(lineNumbers) \in DOMAIN program THEN <<program[Head(lineNumbers)]>>
        ELSE <<>>) \o LinesAt(program, Tail(lineNumbers))

\* The result of the batch for the line with the number n
ResultAt(program, results, n) ==
  results[CHOOSE id \in DOMAIN results : program[IndexOfId(program, id)].lineNo = n]

\* The merge of shiftMultipleLines: the new text of every line of the batch
\* put at its line number, and the outcome of every line by line number.
MergedBatch(content, program, results, numbers) ==
  [success |-> TRUE,
   newContent |->
     Some([n \in DOMAIN content |->
             IF /\ n \in numbers
                /\ ResultAt(program, results, n).success
                /\ ResultAt(program, results, n).newLineContent \notin {None, Some(<<>>)}
             THEN ValueOf(ResultAt(program, results, n).newLineContent)
             ELSE content[n]]),
   error |-> None,
   results |-> [n \in numbers |->
                  IF /\ ResultAt(program, results, n).success
                     /\ ResultAt(program, results, n).newLineContent
                          \notin {None, Some(<<>>)}
                  THEN [success |-> TRUE, error |-> None]
                  ELSE [success |-> FALSE, error |-> ResultAt(program, results, n).error]]]

\* The batch given up as a whole when a line of it failed, merged otherwise.
BatchOutcome(content, program, batchResult) ==
  IF ~batchResult.success
  THEN [success |-> FALSE, newContent |-> None, error |-> batchResult.error,
        results |-> <<>>]
  ELSE MergedBatch(content, program, batchResult.results,
                   {program[IndexOfId(program, id)].lineNo :
                      id \in DOMAIN batchResult.results})

BatchValidated(content, program, lineNumbers, offset, validation) ==
  IF ~validation.valid
  THEN [success |-> FALSE, newContent |-> None, error |-> validation.error,
        results |-> <<>>]
  ELSE BatchOutcome(content, program,
                    executeBatchTimeShift(LinesAt(program, lineNumbers), offset))

\* shiftMultipleLines of the language service
shiftMultipleLines(content, program, lineNumbers, offset) ==
  BatchValidated(content, program, lineNumbers, offset, validateTimeOffset(offset))

\* ------------------------------------------------------------- inputs

\* "- 9am A 1h"
L_TaskA == <<"-", " ", "9", "a", "m", " ", "A", " ", "1", "h">>
\* "- B"
L_TaskB == <<"-", " ", "B">>
\* "- 9:30 C"
L_TaskC == <<"-", " ", "9", ":", "3", "0", " ", "C">>
\* "- 10am D 30x"
L_TaskD == <<"-", " ", "1", "0", "a", "m", " ", "D", " ", "3", "0", "x">>
\* "-E 0m"
L_TaskE == <<"-", "E", " ", "0", "m">>
\* "- !policy overlaps=error"
L_PolicyError == <<"-", " ", "!", "p", "o", "l", "i", "c", "y", " ", "o", "v", "e", "r", "l", "a", "p", "s", "=", "e", "r", "r", "o", "r">>
\* "- !policy overlaps=ignore"
L_PolicyIgnore == <<"-", " ", "!", "p", "o", "l", "i", "c", "y", " ", "o", "v", "e", "r", "l", "a", "p", "s", "=", "i", "g", "n", "o", "r", "e">>
\* "- !default duration=90m"
L_Default == <<"-", " ", "!", "d", "e", "f", "a", "u", "l", "t", " ", "d", "u", "r", "a", "t", "i", "o", "n", "=", "9", "0", "m">>
\* "!scratchpad"
L_Scratchpad == <<"!", "s", "c", "r", "a", "t", "c", "h", "p", "a", "d">>
\* "- !planner"
L_Planner == <<"-", " ", "!", "p", "l", "a", "n", "n", "e", "r">>
\* "- !day 2025-01-16"
L_Day == <<"-", " ", "!", "d", "a", "y", " ", "2", "0", "2", "5", "-", "0", "1", "-", "1", "6">>
\* "- !day 2025-13-01"
L_BadDay == <<"-", " ", "!", "d", "a", "y", " ", "2", "0", "2", "5", "-", "1", "3", "-", "0", "1">>
\* "- !nope"
L_Unknown == <<"-", " ", "!", "n", "o", "p", "e">>
\* "note"
L_Note == <<"n", "o", "t", "e">>
\* ""
L_Blank == <<>>
\* "- midnight M 0m"
L_Midnight == <<"-", " ", "m", "i", "d", "n", "i", "g", "h", "t", " ", "M", " ", "0", "m">>

\* The lines documents are made of.
Pool == {L_TaskA,
         L_TaskB,
         L_TaskC,
         L_TaskD,
         L_TaskE,
         L_PolicyError,
         L_PolicyIgnore,
         L_Default,
         L_Scratchpad,
         L_Planner,
         L_Day,
         L_BadDay,
         L_Unknown,
         L_Note,
         L_Blank,
         L_Midnight}

\* The longest document analyzed.
MaxLines == 3

\* source.split(/\r?\n/): a document is given as the sequence of its lines,
\* which is never empty (the empty text is one empty line).
Documents == UNION {[1..n -> Pool] : n \in 1..MaxLines}

D_20250115 == <<"2", "0", "2", "5", "-", "0", "1", "-", "1", "5">>
D_20250114 == <<"2", "0", "2", "5", "-", "0", "1", "-", "1", "4">>
TZ_Toronto == <<"A", "m", "e", "r", "i", "c", "a", "/", "T", "o", "r", "o", "n", "t", "o">>
TZ_UTC == <<"U", "T", "C">>

\* new Date().toISOString().split('T')[0] and
\* Intl.DateTimeFormat().resolvedOptions().timeZone where the analyzer runs
SystemDay == D_20250114
\* The same, where the analyzer runs a day later.
NextSystemDay == D_20250115
SystemTimeZone == TZ_UTC

\* The ParseOptions a caller passes.
\* "+002025-12"
D_Expanded == <<"+", "0", "0", "2", "0", "2", "5", "-", "1", "2">>
\* "+275760-09-13", the last day of Date: its midnight is the last instant.
D_LastDay == <<"+", "2", "7", "5", "7", "6", "0", "-", "0", "9", "-", "1", "3">>
OptionsSet == {[today |-> Some(D_20250115), timezone |-> Some(TZ_Toronto)],
               [today |-> None, timezone |-> None],
               [today |-> Some(D_Expanded), timezone |-> Some(<<>>)],
               [today |-> Some(<<>>), timezone |-> Some(TZ_Toronto)],
               [today |-> Some(D_LastDay), timezone |-> None]}

\* The context the constructor seeds, systemDay being the day of the clock.
\* options.today || ..., options.timezone || ...: an option that is left out
\* or is the empty string gives way to the system's value.
Truthy(option) == IsSome(option) /\ ValueOf(option) # <<>>

SeedContextOn(opts, systemDay) ==
  [day |-> IF Truthy(opts.today) THEN ValueOf(opts.today) ELSE systemDay,
   timezone |-> IF Truthy(opts.timezone) THEN opts.timezone ELSE Some(SystemTimeZone),
   defaultDurationMin |-> 30,
   overlapPolicy |-> P_warning]

SeedContext(opts) == SeedContextOn(opts, SystemDay)

\* ------------------------------------------------------------ the machine

VARIABLES
  source,          \* the lines of the text given to analyze
  options,         \* the options given to the constructor
  context,         \* this.context
  cursorTime,      \* this.cursorTime
  tasks,           \* this.tasks, the scheduled set
  currentSection,  \* this.currentSection
  rawLines,        \* rawLines of analyze, as far as built
  analyzedLines,   \* analyzedLines of analyze, as far as built
  pc,              \* where analyze is: "raw", "pass1", "pass2", "done", "threw";
                   \* "none" when analyze is not called
  index,           \* the loop index of the current phase (0-based)
  previous,        \* the lines an earlier parseAndAnalyze of the text returned
  shift            \* the calls made outside analyze: the last call of the
                   \* time utilities or of the time-shift engine with what
                   \* it returned, or the calls of applyDirective made so
                   \* far; None before the first call

vars == <<source, options, context, cursorTime, tasks, currentSection,
          rawLines, analyzedLines, pc, index, previous, shift>>

\* new DayPlanAnalyzer(options) followed by the call of analyze(source)
Init ==
  /\ source \in Documents
  /\ options \in OptionsSet
  /\ context = SeedContext(options)
  /\ cursorTime = None
  /\ tasks = <<>>
  /\ currentSection = "planner"
  /\ rawLines = <<>>
  /\ analyzedLines = <<>>
  /\ pc = "raw"
  /\ index = 0
  /\ previous = None
  /\ shift = None

\* The end of one loop iteration: the next index, or the next phase.
Advance(next) ==
  IF index + 1 < Len(source)
  THEN index' = index + 1 /\ pc' = pc
  ELSE index' = 0 /\ pc' = next

RawLineBuilt(r) ==
  /\ rawLines' = Append(rawLines, r.rawLine)
  /\ context' = r.context
  /\ currentSection' = r.currentSection

\* parseLinesToRaw, one line
ParseLine ==
  /\ pc = "raw"
  /\ RawLineBuilt(parseLineToRaw(source[index + 1], index,
                                 preprocessLine(source[index + 1], index + 1),
                                 context, currentSection))
  /\ Advance("pass1")
  /\ UNCHANGED <<shift, previous, source, options, cursorTime, tasks, analyzedLines>>

DirectivePreScanned(r) ==
  /\ context' = r.context
  /\ currentSection' = r.currentSection

\* The first pass of analyze, one line: a directive is applied, what it
\* throws is swallowed.
FirstPass ==
  /\ pc = "pass1"
  /\ IF IsSome(rawLines[index + 1].directive)
     THEN DirectivePreScanned(applyDirective(ValueOf(rawLines[index + 1].directive),
                                             context, currentSection))
     ELSE UNCHANGED <<context, currentSection>>
  /\ Advance("pass2")
  /\ UNCHANGED <<shift, previous, source, options, cursorTime, tasks, rawLines, analyzedLines>>

Current == rawLines[index + 1]
CurrentId == generateLineId(Current.raw, index)

\* analyzeLine of a blank or comment-only line
AnalyzeBlankOrComment ==
  /\ pc = "pass2"
  /\ Current.isBlank \/ Current.isComment
  /\ analyzedLines' = Append(analyzedLines,
                             Line(CurrentId, Current, "valid", Current.diagnostics, None))
  /\ Advance("done")
  /\ UNCHANGED <<shift, previous, source, options, context, cursorTime, tasks, currentSection, rawLines>>

DirectiveAnalyzed(r) ==
  /\ analyzedLines' = Append(analyzedLines, r.line)
  /\ context' = r.context
  /\ currentSection' = r.currentSection

\* analyzeLine of a directive line
AnalyzeDirective ==
  /\ pc = "pass2"
  /\ ~(Current.isBlank \/ Current.isComment)
  /\ IsSome(Current.directive)
  /\ DirectiveAnalyzed(analyzeDirective(Current, CurrentId, context, currentSection))
  /\ Advance("done")
  /\ UNCHANGED <<shift, previous, source, options, cursorTime, tasks, rawLines>>

TaskAnalyzed(r) ==
  /\ ~r.threw
  /\ analyzedLines' = Append(analyzedLines, r.line)
  /\ cursorTime' = r.cursorTime
  /\ tasks' = r.tasks

\* analyzeLine of a task line
AnalyzeTask ==
  /\ pc = "pass2"
  /\ ~(Current.isBlank \/ Current.isComment)
  /\ ~IsSome(Current.directive)
  /\ IsSome(Current.task)
  /\ TaskAnalyzed(analyzeTask(Current, CurrentId, context, cursorTime, tasks))
  /\ Advance("done")
  /\ UNCHANGED <<shift, previous, source, options, context, currentSection, rawLines>>

\* analyzeLine of a task line whose start is an Invalid Date: toISOString
\* throws, and the exception leaves analyze.
AnalyzeTaskThrows ==
  /\ pc = "pass2"
  /\ ~(Current.isBlank \/ Current.isComment)
  /\ ~IsSome(Current.directive)
  /\ IsSome(Current.task)
  /\ analyzeTask(Current, CurrentId, context, cursorTime, tasks).threw
  /\ pc' = "threw"
  /\ UNCHANGED <<shift, previous, source, options, context, cursorTime, tasks, currentSection,
                 rawLines, analyzedLines, index>>

\* analyzeLine of any other line: a scratchpad line, or a line that is
\* neither marker-led nor a bare directive
AnalyzeOther ==
  /\ pc = "pass2"
  /\ ~(Current.isBlank \/ Current.isComment)
  /\ ~IsSome(Current.directive)
  /\ ~IsSome(Current.task)
  /\ analyzedLines' = Append(analyzedLines,
                             Line(CurrentId, Current, "valid", Current.diagnostics, None))
  /\ Advance("done")
  /\ UNCHANGED <<shift, previous, source, options, context, cursorTime, tasks, currentSection, rawLines>>

Next ==
  \/ ParseLine
  \/ FirstPass
  \/ AnalyzeBlankOrComment
  \/ AnalyzeDirective
  \/ AnalyzeTask
  \/ AnalyzeTaskThrows
  \/ AnalyzeOther

Spec == Init /\ [][Next]_vars

\* The fields of the analyzer that parseAndAnalyze keeps from its last call:
\* none, the analyzer is the same object with the fields it was left with.
SameAnalyzer(opts, systemDay) ==
  [context |-> context, cursorTime |-> cursorTime, tasks |-> tasks,
   currentSection |-> currentSection]

\* new DayPlanAnalyzer(options) in parseAndAnalyze: the fields of the fresh
\* analyzer.
NewAnalyzer(opts, systemDay) ==
  [context |-> SeedContextOn(opts, systemDay), cursorTime |-> None, tasks |-> <<>>,
   currentSection |-> "planner"]

Constructed(analyzer) ==
  /\ context' = analyzer.context
  /\ cursorTime' = analyzer.cursorTime
  /\ tasks' = analyzer.tasks
  /\ currentSection' = analyzer.currentSection

\* parseAndAnalyze is called once more with the same text and the same
\* options, the same day or a day later: it builds an analyzer and calls
\* analyze.
ParseAndAnalyzeAgain ==
  /\ pc = "done"
  /\ previous = None
  /\ previous' = Some(analyzedLines)
  /\ \E systemDay \in {SystemDay, NextSystemDay} :
       Constructed(NewAnalyzer(options, systemDay))
  /\ rawLines' = <<>>
  /\ analyzedLines' = <<>>
  /\ pc' = "raw"
  /\ index' = 0
  /\ UNCHANGED <<shift, source, options>>

NextTwice ==
  \/ Next
  \/ ParseAndAnalyzeAgain

SpecTwice == Init /\ [][NextTwice]_vars

\* analyze(source) is called once more on the same DayPlanAnalyzer with the
\* same text: analyze starts its passes without assigning context,
\* cursorTime, tasks or currentSection, so the fields are what the first call
\* left.
AnalyzeAgain ==
  /\ pc = "done"
  /\ previous = None
  /\ previous' = Some(analyzedLines)
  /\ rawLines' = <<>>
  /\ analyzedLines' = <<>>
  /\ pc' = "raw"
  /\ index' = 0
  /\ UNCHANGED <<shift, source, options, context, cursorTime, tasks, currentSection>>

NextReuse ==
  \/ Next
  \/ AnalyzeAgain

SpecReuse == Init /\ [][NextReuse]_vars

\* ------------------------------------------- the time utilities applied

\* The offset texts a caller passes.
\* "+10m"
O_P10m == <<"+", "1", "0", "m">>
\* "+30m"
O_P30m == <<"+", "3", "0", "m">>
\* "-30m"
O_M30m == <<"-", "3", "0", "m">>
\* "+1h"
O_P1h == <<"+", "1", "h">>
\* "-1h"
O_M1h == <<"-", "1", "h">>
\* "+1h30m"
O_P1h30m == <<"+", "1", "h", "3", "0", "m">>
\* "+12h"
O_P12h == <<"+", "1", "2", "h">>
\* "-12h"
O_M12h == <<"-", "1", "2", "h">>
\* "+720m"
O_P720m == <<"+", "7", "2", "0", "m">>
\* "+721m"
O_P721m == <<"+", "7", "2", "1", "m">>
\* "+12h1m"
O_P12h1m == <<"+", "1", "2", "h", "1", "m">>
\* "+15h"
O_P15h == <<"+", "1", "5", "h">>
\* "+0m"
O_P0m == <<"+", "0", "m">>
\* "-0h0m"
O_M0h0m == <<"-", "0", "h", "0", "m">>
\* "+"
O_Sign == <<"+">>
\* "10m"
O_NoSign == <<"1", "0", "m">>
\* "+1x"
O_BadUnit == <<"+", "1", "x">>
\* "+h"
O_NoNumber == <<"+", "h">>
\* "+30m1h"
O_Swapped == <<"+", "3", "0", "m", "1", "h">>
\* "+ 10m"
O_Spaced == <<"+", " ", "1", "0", "m">>
\* "+1H"
O_Upper == <<"+", "1", "H">>
\* ""
O_Empty == <<>>
\* " "
O_Blank == <<" ">>

OffsetTexts == {O_P10m, O_P30m, O_M30m, O_P1h, O_M1h, O_P1h30m, O_P12h, O_M12h,
                O_P720m, O_P721m, O_P12h1m, O_P15h, O_P0m, O_M0h0m, O_Sign,
                O_NoSign, O_BadUnit, O_NoNumber, O_Swapped, O_Spaced, O_Upper,
                O_Empty, O_Blank}

\* The time texts a caller passes.
\* "9am"
T_9am == <<"9", "a", "m">>
\* "9AM"
T_9AM == <<"9", "A", "M">>
\* "2pm"
T_2pm == <<"2", "p", "m">>
\* "12pm"
T_12pm == <<"1", "2", "p", "m">>
\* "9:30am"
T_930am == <<"9", ":", "3", "0", "a", "m">>
\* "11:45pm"
T_1145pm == <<"1", "1", ":", "4", "5", "p", "m">>
\* "12:15am"
T_1215am == <<"1", "2", ":", "1", "5", "a", "m">>
\* "14:30"
T_1430 == <<"1", "4", ":", "3", "0">>
\* "23:45"
T_2345 == <<"2", "3", ":", "4", "5">>
\* "00:15"
T_0015 == <<"0", "0", ":", "1", "5">>
\* "12:00"
T_1200 == <<"1", "2", ":", "0", "0">>
\* "9:30"
T_930 == <<"9", ":", "3", "0">>
\* "9"
T_9 == <<"9">>
\* "12"
T_12 == <<"1", "2">>
\* "13pm"
T_13pm == <<"1", "3", "p", "m">>
\* "24:00"
T_2400 == <<"2", "4", ":", "0", "0">>
\* "9am30"
T_9am30 == <<"9", "a", "m", "3", "0">>

TimeTexts == {T_9am, T_9AM, T_2pm, T_12pm, T_930am, T_1145pm, T_1215am, T_1430,
              T_2345, T_0015, T_1200, T_930, T_9, T_12, T_13pm, T_2400, T_9am30,
              Noon, Midnight}

\* The TimeOffsets parseTimeOffset gives for the offset texts.
TimeOffsets == {ValueOf(parseTimeOffset(o)) : o \in {t \in OffsetTexts : IsSome(parseTimeOffset(t))}}

\* No document is analyzed: the utilities are called on their own.
InitTime ==
  /\ source = <<>>
  /\ options = [today |-> None, timezone |-> None]
  /\ context = SeedContext(options)
  /\ cursorTime = None
  /\ tasks = <<>>
  /\ currentSection = "planner"
  /\ rawLines = <<>>
  /\ analyzedLines = <<>>
  /\ pc = "none"
  /\ index = 0
  /\ previous = None
  /\ shift = None

AnalyzerIdle ==
  UNCHANGED <<source, options, context, cursorTime, tasks, currentSection,
              rawLines, analyzedLines, pc, index, previous>>

\* validateTimeOffset(offset)
ValidateTimeOffset ==
  /\ \E offset \in OffsetTexts :
       shift' = Some([op |-> "validateTimeOffset", offset |-> offset,
                      result |-> validateTimeOffset(offset)])
  /\ AnalyzerIdle

\* applyTimeOffsetToTimeString(timeStr, offset)
ApplyTimeOffsetToTimeString ==
  /\ \E timeStr \in TimeTexts, offset \in TimeOffsets :
       shift' = Some([op |-> "applyTimeOffsetToTimeString", timeStr |-> timeStr,
                      offset |-> offset,
                      result |-> applyTimeOffsetToTimeString(timeStr, offset)])
  /\ AnalyzerIdle

NextTime ==
  \/ ValidateTimeOffset
  \/ ApplyTimeOffsetToTimeString

SpecTime == InitTime /\ [][NextTime]_vars

\* --------------------------------------------- the time-shift engine applied

\* "- 9am, Task, 30m"
S_Task == <<"-", " ", "9", "a", "m", ",", " ", "T", "a", "s", "k", ",", " ", "3", "0", "m">>
\* "-9am Task"
S_NoSpace == <<"-", "9", "a", "m", " ", "T", "a", "s", "k">>
\* "- 23:45 C"
S_Late == <<"-", " ", "2", "3", ":", "4", "5", " ", "C">>
\* "- A # 9am"
S_Hidden == <<"-", " ", "A", " ", "#", " ", "9", "a", "m">>
\* "- noon N 1h"
S_Noon == <<"-", " ", "n", "o", "o", "n", " ", "N", " ", "1", "h">>
\* "- 9 X"
S_Bare == <<"-", " ", "9", " ", "X">>
\* "- noonish 9am A"
S_Noonish == <<"-", " ", "n", "o", "o", "n", "i", "s", "h", " ", "9", "a", "m", " ", "A">>
\* "- 9am planner"
S_Plan == <<"-", " ", "9", "a", "m", " ", "p", "l", "a", "n", "n", "e", "r">>
\* "# c"
S_Comment == <<"#", " ", "c">>
\* "+15m"
O_P15m == <<"+", "1", "5", "m">>

\* The lines the documents of the time-shift engine are made of.
ShiftPool == {S_Task, S_NoSpace, L_TaskB, S_Late, S_Hidden, S_Noon, S_Bare,
              S_Noonish, S_Plan, S_Comment, L_Note, L_BadDay}
MaxShiftLines == 3
ShiftDocuments == UNION {[1..n -> ShiftPool] : n \in 1..MaxShiftLines}

\* The offsets the lines are shifted by.
ShiftOffsets == {O_P15m, O_M30m, O_P12h, O_P15h, O_NoSign, O_Blank}

\* The line numbers of a selection, in document order.
RECURSIVE Ascending(_)
Ascending(S) ==
  IF S = {} THEN <<>>
  ELSE <<CHOOSE n \in S : \A m \in S : n <= m>>
       \o Ascending(S \ {CHOOSE n \in S : \A m \in S : n <= m})

\* The language service analyzes the content with parseAndAnalyze(content),
\* without options.
InitShift ==
  /\ source \in ShiftDocuments
  /\ options = [today |-> None, timezone |-> None]
  /\ context = SeedContext(options)
  /\ cursorTime = None
  /\ tasks = <<>>
  /\ currentSection = "planner"
  /\ rawLines = <<>>
  /\ analyzedLines = <<>>
  /\ pc = "raw"
  /\ index = 0
  /\ previous = None
  /\ shift = None

\* The document is analyzed and the engine has not been called on it.
Analyzed == pc = "done" /\ shift = None

\* The analysis of the document is over, with its lines or with the exception
\* of a task whose start is an Invalid Date, and the language service has not
\* been called on it.
AnalysisOver == pc \in {"done", "threw"} /\ shift = None

\* The language service validates the offset before analyzeDocument(content):
\* an invalid offset returns its error whatever the document, any other
\* offset lets the exception of the analysis leave the call.
Thrown(offset) == pc = "threw" /\ validateTimeOffset(offset).valid

\* executeTimeShift(line, offset, program.lines) on a line of the program
ExecuteTimeShift ==
  /\ Analyzed
  /\ \E lineNumber \in DOMAIN analyzedLines, offset \in ShiftOffsets :
       shift' = Some([op |-> "executeTimeShift", lineNumber |-> lineNumber,
                      offset |-> offset,
                      result |-> executeTimeShift(analyzedLines[lineNumber], offset,
                                                  analyzedLines)])
  /\ AnalyzerIdle

\* shiftTime(content, lineNumber, offset) of the language service
ShiftTime ==
  /\ AnalysisOver
  /\ \E lineNumber \in 1..(Len(source) + 1), offset \in ShiftOffsets :
       shift' = Some([op |-> "shiftTime", lineNumber |-> lineNumber, offset |-> offset,
                      threw |-> Thrown(offset),
                      result |-> IF Thrown(offset) THEN None
                                 ELSE shiftTime(source, analyzedLines, lineNumber,
                                                offset)])
  /\ AnalyzerIdle

\* executeBatchTimeShift(lines, offset) on a selection of lines of the program
ExecuteBatchTimeShift ==
  /\ Analyzed
  /\ \E selection \in (SUBSET DOMAIN analyzedLines) \ {{}}, offset \in ShiftOffsets :
       shift' = Some([op |-> "executeBatchTimeShift",
                      lineNumbers |-> Ascending(selection), offset |-> offset,
                      result |-> executeBatchTimeShift(
                                   LinesAt(analyzedLines, Ascending(selection)), offset)])
  /\ AnalyzerIdle

\* shiftMultipleLines(content, lineNumbers, offset) of the language service
ShiftMultipleLines ==
  /\ AnalysisOver
  /\ \E selection \in (SUBSET DOMAIN source) \ {{}}, offset \in ShiftOffsets :
       shift' = Some([op |-> "shiftMultipleLines",
                      lineNumbers |-> Ascending(selection), offset |-> offset,
                      threw |-> Thrown(offset),
                      result |-> IF Thrown(offset) THEN None
                                 ELSE shiftMultipleLines(source, analyzedLines,
                                                         Ascending(selection), offset)])
  /\ AnalyzerIdle

NextShift ==
  \/ Next
  \/ ExecuteTimeShift
  \/ ShiftTime
  \/ ExecuteBatchTimeShift
  \/ ShiftMultipleLines

SpecShift == InitShift /\ [][NextShift]_vars

\* ------------------------------------------------- directive documents

\* "- !policy overlaps=maybe"
L_BadPolicy == <<"-", " ", "!", "p", "o", "l", "i", "c", "y", " ", "o", "v", "e", "r", "l", "a", "p", "s", "=", "m", "a", "y", "b", "e">>
\* "- !default duration=abc"
L_BadDefault == <<"-", " ", "!", "d", "e", "f", "a", "u", "l", "t", " ", "d", "u", "r", "a", "t", "i", "o", "n", "=", "a", "b", "c">>
\* "- !default duration=45m"
L_Default45 == <<"-", " ", "!", "d", "e", "f", "a", "u", "l", "t", " ", "d", "u", "r", "a", "t", "i", "o", "n", "=", "4", "5", "m">>
\* "- !day 2025-1-16"
L_DayForm == <<"-", " ", "!", "d", "a", "y", " ", "2", "0", "2", "5", "-", "1", "-", "1", "6">>
\* "- !day __proto__=2025-01-20"
L_ProtoDay == <<"-", " ", "!", "d", "a", "y", " ", "_", "_", "p", "r", "o", "t", "o", "_", "_", "=", "2", "0", "2", "5", "-", "0", "1", "-", "2", "0">>
\* "- !tz Asia/Tokyo"
L_Tz == <<"-", " ", "!", "t", "z", " ", "A", "s", "i", "a", "/", "T", "o", "k", "y", "o">>
\* "- !default duration=0m"
L_Default0 == <<"-", " ", "!", "d", "e", "f", "a", "u", "l", "t", " ", "d", "u", "r", "a", "t", "i", "o", "n", "=", "0", "m">>
\* "- !tz"
L_TzBare == <<"-", " ", "!", "t", "z">>
\* "- !day a=x 1000000000=2025-01-20"
L_IndexDay == <<"-", " ", "!", "d", "a", "y", " ", "a", "=", "x", " ", "1", "0", "0", "0", "0", "0", "0", "0", "0", "0", "=", "2", "0", "2", "5", "-", "0", "1", "-", "2", "0">>
\* "Asia/Tokyo"
TZ_Tokyo == <<"A", "s", "i", "a", "/", "T", "o", "k", "y", "o">>

\* The lines of the documents whose directives are looked at: valid and
\* failing directives of every kind, and lines around them.
DirectivePool == {L_Default, L_Default45, L_BadDefault, L_Default0,
                  L_PolicyError, L_PolicyIgnore, L_BadPolicy,
                  L_Day, L_DayForm, L_BadDay, L_IndexDay,
                  L_Tz, L_TzBare, L_Unknown, L_ProtoDay,
                  L_TaskA, L_TaskB, L_Note, L_Blank}
MaxDirectiveLines == 3
DirectiveDocuments == UNION {[1..n -> DirectivePool] : n \in 1..MaxDirectiveLines}

\* new DayPlanAnalyzer(options) followed by the call of analyze(source)
InitDirectives ==
  /\ source \in DirectiveDocuments
  /\ options \in OptionsSet
  /\ context = SeedContext(options)
  /\ cursorTime = None
  /\ tasks = <<>>
  /\ currentSection = "planner"
  /\ rawLines = <<>>
  /\ analyzedLines = <<>>
  /\ pc = "raw"
  /\ index = 0
  /\ previous = None
  /\ shift = None

SpecDirectives == InitDirectives /\ [][Next]_vars

\* ------------------------------------------------------ task documents

\* "- 9am X :a::b"
L_Cat == <<"-", " ", "9", "a", "m", " ", "X", " ", ":", "a", ":", ":", "b">>
\* "- 9am X :a::"
L_CatTrail == <<"-", " ", "9", "a", "m", " ", "X", " ", ":", "a", ":", ":">>
\* "- 9am X :a:::b"
L_CatTriple == <<"-", " ", "9", "a", "m", " ", "X", " ", ":", "a", ":", ":", ":", "b">>
\* "- 10am Y,"
L_Comma == <<"-", " ", "1", "0", "a", "m", " ", "Y", ",">>
\* "-11am Z"
L_NoSpace == <<"-", "1", "1", "a", "m", " ", "Z">>
\* "- 9am 10am W"
L_TwoTimes == <<"-", " ", "9", "a", "m", " ", "1", "0", "a", "m", " ", "W">>
\* "- 25:99 U"
L_Wrap == <<"-", " ", "2", "5", ":", "9", "9", " ", "U">>
\* "- 13pm T"
L_13pm == <<"-", " ", "1", "3", "p", "m", " ", "T">>
\* "- 2pm S 1h30"
L_HalfDur == <<"-", " ", "2", "p", "m", " ", "S", " ", "1", "h", "3", "0">>
\* "- 9am X :a:::5m"
L_CatDur == <<"-", " ", "9", "a", "m", " ", "X", " ", ":", "a", ":", ":", ":", "5", "m">>
\* "-9am 10am W,"
L_AllWarn == <<"-", "9", "a", "m", " ", "1", "0", "a", "m", " ", "W", ",">>
\* "- 2pm S 1h30 45m"
L_TwoDur == <<"-", " ", "2", "p", "m", " ", "S", " ", "1", "h", "3", "0", " ", "4", "5", "m">>
\* "- 3pm R x.y"
L_Odd == <<"-", " ", "3", "p", "m", " ", "R", " ", "x", ".", "y">>

\* The lines of the documents whose task lines are looked at: well-formed
\* and malformed parts of every kind, and lines around them.
TaskPool == {L_TaskA, L_TaskB, L_TaskC, L_TaskD, L_TaskE,
             L_Cat, L_CatTrail, L_CatTriple, L_CatDur,
             L_Comma, L_NoSpace, L_TwoTimes, L_AllWarn,
             L_Wrap, L_13pm, L_HalfDur, L_TwoDur, L_Odd,
             L_Default, L_Day, L_BadDay, L_Note, L_Blank}
MaxTaskLines == 3
TaskDocuments == UNION {[1..n -> TaskPool] : n \in 1..MaxTaskLines}

\* new DayPlanAnalyzer({ today, timezone }) followed by the call of
\* analyze(source)
InitTasks ==
  /\ source \in TaskDocuments
  /\ options = [today |-> Some(D_20250115), timezone |-> Some(TZ_Toronto)]
  /\ context = SeedContext(options)
  /\ cursorTime = None
  /\ tasks = <<>>
  /\ currentSection = "planner"
  /\ rawLines = <<>>
  /\ analyzedLines = <<>>
  /\ pc = "raw"
  /\ index = 0
  /\ previous = None
  /\ shift = None

SpecTasks == InitTasks /\ [][Next]_vars

\* --------------------------------------------------- applyDirective applied

\* The directive lines whose directives are applied: valid and failing ones
\* for every setting, an unknown one and the two section directives.
ApplyPool == {L_Default, L_Default45, L_BadDefault,
              L_PolicyError, L_PolicyIgnore, L_BadPolicy,
              L_Day, L_BadDay, L_DayForm, L_IndexDay, L_Tz, L_TzBare, L_Unknown,
              L_Default0, L_Scratchpad, L_Planner}
MaxApplications == 4

\* The directive that parseLineContent reads from a directive line.
DirectiveOfLine(line) == ValueOf(parseLineContent(line, 1, "planner").directive)

\* new DayPlanAnalyzer(options); analyze is not called
InitApply ==
  /\ source = <<>>
  /\ options \in OptionsSet
  /\ context = SeedContext(options)
  /\ cursorTime = None
  /\ tasks = <<>>
  /\ currentSection = "planner"
  /\ rawLines = <<>>
  /\ analyzedLines = <<>>
  /\ pc = "none"
  /\ index = 0
  /\ previous = None
  /\ shift = None

\* The calls of applyDirective made so far, each with what it left behind.
Applications == IF shift = None THEN <<>> ELSE ValueOf(shift).calls

DirectiveCalled(directive, r) ==
  /\ context' = r.context
  /\ currentSection' = r.currentSection
  /\ shift' = Some([op |-> "applyDirective",
                    calls |-> Append(Applications,
                                     [directive |-> directive,
                                      threw |-> r.threw,
                                      context |-> r.context,
                                      currentSection |-> r.currentSection])])

\* applyDirective(directive) on the analyzer
ApplyDirective ==
  /\ pc = "none"
  /\ Len(Applications) < MaxApplications
  /\ \E line \in ApplyPool :
       DirectiveCalled(DirectiveOfLine(line),
                       applyDirective(DirectiveOfLine(line), context, currentSection))
  /\ UNCHANGED <<source, options, cursorTime, tasks, rawLines, analyzedLines,
                 pc, index, previous>>

NextApply == ApplyDirective

SpecApply == InitApply /\ [][NextApply]_vars

\* --------------------------------------------------- preprocessLine applied

\* The lines given to preprocessLine: an indentation, a marker or none, the
\* white space after it and the rest of the line.
Indents == {<<>>, <<" ">>, <<" ", " ">>, <<"\t">>}
Markers == {<<>>, <<"-">>}
Gaps == {<<>>, <<" ">>, <<" ", " ">>, <<"\t">>}
Rests == {<<>>, <<"A">>, <<"9", "a", "m", " ", "A">>, <<"!", "x">>, <<"-", "B">>,
          <<"#", " ", "c">>}
PreLines == {i \o m \o g \o r : i \in Indents, m \in Markers, g \in Gaps, r \in Rests}
MaxLineNo == 2

\* preprocessLine(line, lineNo)
PreprocessLine ==
  /\ pc = "none"
  /\ \E line \in PreLines, lineNo \in 1..MaxLineNo :
       shift' = Some([op |-> "preprocessLine", line |-> line, lineNo |-> lineNo,
                      result |-> preprocessLine(line, lineNo)])
  /\ AnalyzerIdle

NextPreprocess == PreprocessLine

SpecPreprocess == InitTime /\ [][NextPreprocess]_vars

\* ---------------------------------------------- the time parsers applied

\* The time strings given to the two parsers: an hour, minutes or none, and
\* a suffix or none, in and out of range, and some words.
HourTexts == {<<"0">>, <<"1">>, <<"9">>, <<"0", "9">>, <<"1", "2">>, <<"1", "3">>,
              <<"2", "3">>, <<"2", "4">>, <<"2", "5">>, <<"1", "0", "0">>}
MinuteTexts == {<<>>, <<":", "0", "0">>, <<":", "3", "0">>, <<":", "5", "9">>,
                <<":", "6", "0">>, <<":", "7", "0">>, <<":", "5">>}
SuffixTexts == {<<>>, <<"a", "m">>, <<"p", "m">>, <<"P", "M">>, <<"x">>}
ClockTexts ==
  {h \o m \o s : h \in HourTexts, m \in MinuteTexts, s \in SuffixTexts}
    \cup {Noon, Midnight, <<"N", "o", "o", "n">>, <<"n", "o", "o", "n", "i", "s", "h">>,
          <<>>, <<"9", " ", "a", "m">>}

\* parseTimeString(timeStr) of parser-utils and parseTime(timeStr, 1) of the
\* analyzer, called on the same string
ParseTimeStrings ==
  /\ pc = "none"
  /\ \E timeStr \in ClockTexts :
       shift' = Some([op |-> "parseTimeString", timeStr |-> timeStr,
                      result |-> ParserUtilsParseTimeString(timeStr),
                      analyzer |-> parseTime(timeStr, 1)])
  /\ AnalyzerIdle

NextParse == ParseTimeStrings

SpecParse == InitTime /\ [][NextParse]_vars

\* ------------------------------------------------------- chain documents

\* "- 9am Z 0m"
L_ZeroFirst == <<"-", " ", "9", "a", "m", " ", "Z", " ", "0", "m">>
\* "- F 30x"
L_BadChain == <<"-", " ", "F", " ", "3", "0", "x">>

\* The lines of the documents in which tasks chain: tasks with and without a
\* time token, with a zero duration, an invalid task without a time token,
\* the overlap policies, and lines around them.
ChainPool == {L_TaskA, L_TaskB, L_TaskC, L_TaskE, L_ZeroFirst, L_BadChain,
              L_PolicyError, L_PolicyIgnore, L_BadDay, L_Note, L_Blank}
MaxChainLines == 4
ChainDocuments == UNION {[1..n -> ChainPool] : n \in 1..MaxChainLines}

\* new DayPlanAnalyzer({ today, timezone }) followed by the call of
\* analyze(source)
InitChain ==
  /\ source \in ChainDocuments
  /\ options = [today |-> Some(D_20250115), timezone |-> Some(TZ_Toronto)]
  /\ context = SeedContext(options)
  /\ cursorTime = None
  /\ tasks = <<>>
  /\ currentSection = "planner"
  /\ rawLines = <<>>
  /\ analyzedLines = <<>>
  /\ pc = "raw"
  /\ index = 0
  /\ previous = None
  /\ shift = None

SpecChain == InitChain /\ [][Next]_vars

\* ------------------------------------------------ the shifted document

\* The lines of the documents that are shifted and analyzed again.
ReshiftPool == {S_Task, L_TaskB, L_TaskD, S_Late, S_Noonish, S_Comment, L_Note,
                L_BadDay}
MaxReshiftLines == 3
ReshiftDocuments == UNION {[1..n -> ReshiftPool] : n \in 1..MaxReshiftLines}

\* The language service analyzes the content with parseAndAnalyze(content),
\* without options.
InitReshift ==
  /\ source \in ReshiftDocuments
  /\ options = [today |-> None, timezone |-> None]
  /\ context = SeedContext(options)
  /\ cursorTime = None
  /\ tasks = <<>>
  /\ currentSection = "planner"
  /\ rawLines = <<>>
  /\ analyzedLines = <<>>
  /\ pc = "raw"
  /\ index = 0
  /\ previous = None
  /\ shift = None

\* The new content of a successful shiftTime replaces the document, which
\* parseAndAnalyze then analyzes on a new analyzer, built when the call is
\* made: the same day or a day later; the lines of the first analysis are
\* kept in previous.  A failed shiftTime changes nothing.
ShiftApplied(lineNumber, offset, result) ==
  /\ shift' = Some([op |-> "shiftTime", lineNumber |-> lineNumber,
                    offset |-> offset, threw |-> FALSE, result |-> result])
  /\ IF result.success
     THEN /\ source' = ValueOf(result.newContent)
          /\ previous' = Some(analyzedLines)
          /\ \E systemDay \in {SystemDay, NextSystemDay} :
               Constructed(NewAnalyzer(options, systemDay))
          /\ rawLines' = <<>>
          /\ analyzedLines' = <<>>
          /\ pc' = "raw"
          /\ index' = 0
          /\ UNCHANGED options
     ELSE AnalyzerIdle

\* shiftTime of a document whose analysis throws, with an offset that passes
\* the validation: the exception leaves the call.
ShiftThrown(lineNumber, offset) ==
  /\ shift' = Some([op |-> "shiftTime", lineNumber |-> lineNumber,
                    offset |-> offset, threw |-> TRUE, result |-> None])
  /\ AnalyzerIdle

\* shiftTime(content, lineNumber, offset) of the language service, and the
\* analysis of the content it returns
ShiftTimeAndAnalyze ==
  /\ AnalysisOver
  /\ \E lineNumber \in DOMAIN source, offset \in ShiftOffsets :
       IF Thrown(offset) THEN ShiftThrown(lineNumber, offset)
       ELSE ShiftApplied(lineNumber, offset,
                         shiftTime(source, analyzedLines, lineNumber, offset))

NextReshift ==
  \/ Next
  \/ ShiftTimeAndAnalyze

SpecReshift == InitReshift /\ [][NextReshift]_vars

\* -------------------------------------------- the shift there and back

\* "9:70am"
T_970am == <<"9", ":", "7", "0", "a", "m">>

\* The time strings that are shifted there and back, and the offsets
\* validateTimeOffset accepts.
RoundTripTexts == TimeTexts \cup {T_970am}
ValidOffsetTexts == {o \in OffsetTexts : validateTimeOffset(o).valid}
\* The offset text with the other sign.
Opposite(offset) == <<IF Head(offset) = "+" THEN "-" ELSE "+">> \o Tail(offset)

\* The second call, on the time string the first call returned.
ThereAndBack(timeStr, offset, there) ==
  [op |-> "thereAndBack", timeStr |-> timeStr, offset |-> offset, there |-> there,
   back |-> IF there.success
            THEN applyTimeOffsetToTimeString(ValueOf(there.newTime),
                                             ValueOf(parseTimeOffset(Opposite(offset))))
            ELSE there]

\* applyTimeOffsetToTimeString(timeStr, d), then applyTimeOffsetToTimeString
\* of its newTime with the offset of the other sign
ShiftThereAndBack ==
  /\ \E timeStr \in RoundTripTexts, offset \in ValidOffsetTexts :
       shift' = Some(ThereAndBack(timeStr, offset,
                                  applyTimeOffsetToTimeString(
                                    timeStr, ValueOf(parseTimeOffset(offset)))))
  /\ AnalyzerIdle

NextRoundTrip == ShiftThereAndBack

SpecRoundTrip == InitTime /\ [][NextRoundTrip]_vars

\* ---------------------------------------------------------- the properties

\* The analyzed line i carries a task node.
AnalyzedTask(i) ==
  IsSome(analyzedLines[i].node) /\ ValueOf(analyzedLines[i].node).kind = "task"
NodeAt(i) == ValueOf(analyzedLines[i].node)
CodesAt(i) == Codes(analyzedLines[i].diagnostics)
\* The analyzed line i has no error-class diagnostic.
ErrorFree(i) == \A c \in CodesAt(i) : ~IsErrorCode(c)
\* The raw line i is a task line without a time token.
NoTimeToken(i) == IsSome(rawLines[i].task) /\ ~IsSome(ValueOf(rawLines[i].task).time)
\* The task lines before line i that have no error-class diagnostic.
ValidTasksBefore(i) == {j \in 1..(i - 1) : AnalyzedTask(j) /\ ErrorFree(j)}
MostRecentValidTask(i) ==
  CHOOSE j \in ValidTasksBefore(i) : \A k \in ValidTasksBefore(i) : k <= j
\* The minutes from the instant a to the instant b, of instants that are
\* less than a million days apart.
MinutesFrom(a, b) == (b.days - a.days) * (24 * 60) + b.minutes - a.minutes
\* The instant a is earlier than the instant b.
EarlierThan(a, b) ==
  \/ a.days < b.days
  \/ a.days = b.days /\ a.minutes < b.minutes
\* The half-open intervals of the nodes a and b intersect.
Intersects(a, b) ==
  /\ IsSome(a.start) /\ IsSome(a.end) /\ IsSome(b.start) /\ IsSome(b.end)
  /\ EarlierThan(ValueOf(a.start), ValueOf(b.end))
  /\ EarlierThan(ValueOf(b.start), ValueOf(a.end))
OverlapCodes == {"E030-overlap", "W010-overlap"}

\* C1 -- Chaining: a task line without a time token that is analyzed after
\* some task line was committed starts at the end of the most recent earlier
\* task line that has no error-class diagnostic; the task lines with an
\* error-class diagnostic in between do not change that value.
C1_Chaining ==
  \A i \in DOMAIN analyzedLines :
    (AnalyzedTask(i) /\ NoTimeToken(i) /\ ValidTasksBefore(i) # {}) =>
      /\ IsSome(NodeAt(i).start)
      /\ ~NodeAt(i).explicitStart
      /\ NodeAt(i).start = NodeAt(MostRecentValidTask(i)).end

\* A chained task line is analyzed after an invalid task line whose own end
\* differs from the end of the valid task line before it.
C1_Witness ==
  \E i \in DOMAIN analyzedLines :
    /\ AnalyzedTask(i) /\ NoTimeToken(i) /\ ValidTasksBefore(i) # {}
    /\ \E j \in (MostRecentValidTask(i) + 1)..(i - 1) :
         /\ AnalyzedTask(j) /\ ~ErrorFree(j)
         /\ IsSome(NodeAt(j).end)
         /\ NodeAt(j).end # NodeAt(MostRecentValidTask(i)).end

\* C2 -- Committal rule: the scheduled set holds only nodes of task lines
\* without an error-class diagnostic, the cursor is the end of such a line,
\* and a line with an overlap diagnostic intersects an earlier task line
\* without an error-class diagnostic, never only an invalid line's interval.
C2_Committal ==
  /\ \A k \in DOMAIN tasks :
       \E i \in DOMAIN analyzedLines :
         AnalyzedTask(i) /\ ErrorFree(i) /\ NodeAt(i) = tasks[k]
  /\ IsSome(cursorTime) =>
       \E i \in DOMAIN analyzedLines :
         AnalyzedTask(i) /\ ErrorFree(i) /\ NodeAt(i).end = cursorTime
  /\ \A i \in DOMAIN analyzedLines :
       (AnalyzedTask(i) /\ CodesAt(i) \cap OverlapCodes # {}) =>
         \E j \in ValidTasksBefore(i) : Intersects(NodeAt(i), NodeAt(j))

\* A task line's interval intersects that of an earlier invalid task line and
\* of no earlier valid one, and the line has no overlap diagnostic.
C2_Witness ==
  \E i \in DOMAIN analyzedLines :
    /\ AnalyzedTask(i)
    /\ \E j \in 1..(i - 1) :
         AnalyzedTask(j) /\ ~ErrorFree(j) /\ Intersects(NodeAt(i), NodeAt(j))
    /\ \A j \in ValidTasksBefore(i) : ~Intersects(NodeAt(i), NodeAt(j))
    /\ ValidTasksBefore(i) # {}
    /\ CodesAt(i) \cap OverlapCodes = {}

\* The overlap diagnostic that the policy asks for on the line l that
\* analyzeTask returned for the scheduled set it was called with: E030 under
\* error, W010 under warning, none under ignore, and none on a line that
\* intersects no scheduled task.
OverlapCodeFollowsPolicy(policy, scheduled, l) ==
  Codes(l.diagnostics) \cap OverlapCodes
    = IF \E k \in DOMAIN scheduled : Intersects(ValueOf(l.node), scheduled[k])
      THEN (IF policy = P_error THEN {"E030-overlap"}
            ELSE IF policy = P_warning THEN {"W010-overlap"}
            ELSE {})
      ELSE {}

\* The line l intersects a scheduled task.
IntersectsScheduled(scheduled, l) ==
  \E k \in DOMAIN scheduled : Intersects(ValueOf(l.node), scheduled[k])

\* C3 -- Overlap policy, as claimed: a task line whose half-open interval
\* intersects that of a scheduled task gets E030-overlap and is invalid under
\* the policy error, gets W010-overlap and is valid-with-warnings under the
\* policy warning, and gets no overlap diagnostic under ignore; a task line
\* that intersects no scheduled task gets no overlap diagnostic.  The policy
\* is the one in effect when the line is analyzed.
C3_OverlapPolicy ==
  [][AnalyzeTask =>
       /\ OverlapCodeFollowsPolicy(context.overlapPolicy, tasks,
                                   analyzedLines'[Len(analyzedLines')])
       /\ IntersectsScheduled(tasks, analyzedLines'[Len(analyzedLines')]) =>
            /\ context.overlapPolicy = P_error =>
                 analyzedLines'[Len(analyzedLines')].status = "invalid"
            /\ context.overlapPolicy = P_warning =>
                 analyzedLines'[Len(analyzedLines')].status = "valid-with-warnings"]_vars

\* C3 -- Overlap policy, amended: the overlap diagnostic follows the policy
\* as claimed and the line is invalid under error; under warning the line is
\* valid-with-warnings exactly when it has no error-class diagnostic, and
\* invalid when it has one.
C3_OverlapPolicyUnlessInvalid ==
  [][AnalyzeTask =>
       /\ OverlapCodeFollowsPolicy(context.overlapPolicy, tasks,
                                   analyzedLines'[Len(analyzedLines')])
       /\ IntersectsScheduled(tasks, analyzedLines'[Len(analyzedLines')]) =>
            /\ context.overlapPolicy = P_error =>
                 analyzedLines'[Len(analyzedLines')].status = "invalid"
            /\ context.overlapPolicy = P_warning =>
                 analyzedLines'[Len(analyzedLines')].status
                   = IF \E c \in Codes(analyzedLines'[Len(analyzedLines')].diagnostics) :
                          IsErrorCode(c)
                     THEN "invalid" ELSE "valid-with-warnings"]_vars

\* Under the policy warning a line that intersects a scheduled task was
\* analyzed with W010-overlap and an error-class diagnostic of its own, and
\* is invalid.
C3_Witness ==
  \E i \in DOMAIN analyzedLines :
    /\ AnalyzedTask(i)
    /\ context.overlapPolicy = P_warning
    /\ "W010-overlap" \in CodesAt(i)
    /\ ~ErrorFree(i)
    /\ analyzedLines[i].status = "invalid"
    /\ \E j \in ValidTasksBefore(i) : Intersects(NodeAt(i), NodeAt(j))

\* The context after the directives of the first k lines were applied, in
\* document order, to the context the options seed (what a directive throws
\* leaves the context as it was).
RECURSIVE ContextAfter(_)
ContextAfter(k) ==
  IF k = 0 THEN SeedContext(options)
  ELSE IF IsSome(rawLines[k].directive)
  THEN applyDirective(ValueOf(rawLines[k].directive), ContextAfter(k - 1), "planner").context
  ELSE ContextAfter(k - 1)

\* The second pass is about to analyze a task line.
AtTaskLine ==
  /\ pc = "pass2"
  /\ ~(Current.isBlank \/ Current.isComment)
  /\ ~IsSome(Current.directive)
  /\ IsSome(Current.task)

\* C4 -- Context mutation is strictly forward: the default duration, the
\* overlap policy and the day a task line is analyzed with are those that the
\* caller's options and the directives on earlier lines give; a directive on
\* a later line has no part in them.
C4_ForwardContext ==
  AtTaskLine =>
    /\ context.defaultDurationMin = ContextAfter(index).defaultDurationMin
    /\ context.overlapPolicy = ContextAfter(index).overlapPolicy
    /\ context.day = ContextAfter(index).day

\* The raw line i is not blank, not comment-only and not a directive.
ContentLine(i) ==
  ~rawLines[i].isBlank /\ ~rawLines[i].isComment /\ ~IsSome(rawLines[i].directive)
\* The first line of the document that is a content line.
FirstContentLine(i) == ContentLine(i) /\ \A j \in 1..(i - 1) : ~ContentLine(j)
\* The first line of the document that is a task line.
FirstTaskLine(i) == AnalyzedTask(i) /\ \A j \in 1..(i - 1) : ~AnalyzedTask(j)
\* The line i carries no explicit time.
LacksExplicitTime(i) ==
  ~(IsSome(rawLines[i].task) /\ IsSome(ValueOf(rawLines[i].task).time))
MissingStart(i) ==
  /\ "E020-missing-start-first-line" \in CodesAt(i)
  /\ analyzedLines[i].status = "invalid"

IsSectionDirective(i, name) ==
  IsSome(rawLines[i].directive) /\ ValueOf(rawLines[i].directive).name = name

\* The section mode after the first k lines: the mode the most recent section
\* directive among them names, planner if there is none.
RECURSIVE SectionAfter(_)
SectionAfter(k) ==
  IF k = 0 THEN "planner"
  ELSE IF IsSectionDirective(k, Scratchpad) THEN "scratchpad"
  ELSE IF IsSectionDirective(k, Planner) THEN "planner"
  ELSE SectionAfter(k - 1)

\* The line i lies between a scratchpad directive and the next planner
\* directive, or the end of the document.
InScratchpad(i) == SectionAfter(i - 1) = "scratchpad" /\ ~IsSectionDirective(i, Planner)

\* The diagnostics of the task branch of parseLineContent and of analyzeTask.
TaskDiagnosticCodes ==
  {"E001-bad-time", "E010-bad-duration", "E020-missing-start-first-line",
   "E030-overlap", "E050-bad-category", "W005-trailing-comma", "W010-overlap",
   "W030-unknown-part"}

\* C6 -- Scratchpad isolation: every line between a scratchpad directive and
\* the next planner directive, or the end of the document, has no semantic
\* node, no task diagnostic and status valid.
C6_ScratchpadIsolation ==
  \A i \in DOMAIN analyzedLines :
    InScratchpad(i) =>
      /\ ~IsSome(analyzedLines[i].node)
      /\ CodesAt(i) \cap TaskDiagnosticCodes = {}
      /\ analyzedLines[i].status = "valid"

\* The raw line i is marker-led (a dash after optional blanks), and no
\* directive.
MarkerLed(i) ==
  /\ ContentLine(i)
  /\ RunEnd(rawLines[i].raw, 1, Space) <= Len(rawLines[i].raw)
  /\ rawLines[i].raw[RunEnd(rawLines[i].raw, 1, Space)] = "-"

\* C7 -- Section-mode state machine: while the raw lines are built the mode
\* at a line is the mode named by the most recent earlier section directive
\* line (marker-prefixed or bare), planner if there is none; no other line
\* changes it.  The mode at a line shows in what the line is read as: a
\* marker-led line that is no directive is a task line in planner mode and a
\* scratchpad line in scratchpad mode.
C7_SectionMode ==
  /\ pc = "raw" => currentSection = SectionAfter(Len(rawLines))
  /\ \A i \in DOMAIN rawLines :
       MarkerLed(i) =>
         /\ IsSome(rawLines[i].task) <=> SectionAfter(i - 1) = "planner"
         /\ rawLines[i].isScratchpad <=> SectionAfter(i - 1) = "scratchpad"

\* A bare scratchpad directive, then a marker-prefixed planner directive,
\* then a marker-led line that is read as a task.
C7_Witness ==
  \E i, j, k \in DOMAIN rawLines :
    /\ i < j /\ j < k
    /\ IsSectionDirective(i, Scratchpad) /\ rawLines[i].raw[1] = "!"
    /\ IsSectionDirective(j, Planner) /\ rawLines[j].raw[1] = "-"
    /\ MarkerLed(k) /\ IsSome(rawLines[k].task)

\* C8 -- Status is a function of the diagnostic codes, for every line of the
\* result: invalid exactly when some code is error-class, valid-with-warnings
\* exactly when there are diagnostics and none is error-class, valid exactly
\* when there is no diagnostic.
C8_StatusFromCodes ==
  \A i \in DOMAIN analyzedLines :
    /\ analyzedLines[i].status = "invalid" <=> \E c \in CodesAt(i) : IsErrorCode(c)
    /\ analyzedLines[i].status = "valid-with-warnings" <=>
         (CodesAt(i) # {} /\ \A c \in CodesAt(i) : ~IsErrorCode(c))
    /\ analyzedLines[i].status = "valid" <=> CodesAt(i) = {}

\* C9 -- For every task node, end is defined exactly when start is, and then
\* end is start plus durationMin minutes.
C9_EndIsStartPlusDuration ==
  \A i \in DOMAIN analyzedLines :
    AnalyzedTask(i) =>
      /\ IsSome(NodeAt(i).end) <=> IsSome(NodeAt(i).start)
      /\ IsSome(NodeAt(i).start) =>
           MinutesFrom(ValueOf(NodeAt(i).start), ValueOf(NodeAt(i).end))
             = NodeAt(i).durationMin

\* A task node with a start and a duration of its own that is not the
\* default, and a task node without start and end.
C9_Witness ==
  /\ \E i \in DOMAIN analyzedLines :
       /\ AnalyzedTask(i) /\ IsSome(NodeAt(i).start) /\ IsSome(NodeAt(i).end)
       /\ NodeAt(i).explicitDuration /\ NodeAt(i).durationMin = 60
  /\ \E i \in DOMAIN analyzedLines :
       AnalyzedTask(i) /\ ~IsSome(NodeAt(i).start) /\ ~IsSome(NodeAt(i).end)

C11_NoCrossRunState ==
  (pc = "done" /\ IsSome(previous)) => analyzedLines = ValueOf(previous)

\* The last call was validateTimeOffset.
Validated == IsSome(shift) /\ ValueOf(shift).op = "validateTimeOffset"

\* s is a count with its unit: one or more digits and the unit letter.
IsCount(s, unit) ==
  Len(s) >= 2 /\ s[Len(s)] = unit /\ \A k \in 1..(Len(s) - 1) : s[k] \in Digit
CountOf(s) == IF s = <<>> THEN 0 ELSE ParseInt(SubSeq(s, 1, Len(s) - 1))
\* o is a sign, the text up to k an optional hour count and the rest an
\* optional minute count, one of them at least present.
SplitsAt(o, k) ==
  /\ (k = 1 \/ IsCount(SubSeq(o, 2, k), "h"))
  /\ (k = Len(o) \/ IsCount(SubSeq(o, k + 1, Len(o)), "m"))
WellFormedOffset(o) ==
  Len(o) >= 2 /\ o[1] \in {"+", "-"} /\ \E k \in 1..Len(o) : SplitsAt(o, k)
\* The minutes a well-formed offset stands for, without its sign.
Magnitude(o) ==
  LET k == CHOOSE k \in 1..Len(o) : SplitsAt(o, k)
  IN CountOf(SubSeq(o, 2, k)) * 60 + CountOf(SubSeq(o, k + 1, Len(o)))
Acceptable(o) == WellFormedOffset(o) /\ Magnitude(o) \in 1..720
TooLarge(o) == WellFormedOffset(o) /\ Magnitude(o) > 720

\* C13 as stated: an offset is accepted exactly when it is a sign, an
\* optional hour count and an optional minute count (one at least) of a
\* non-zero magnitude of at most 720 minutes; an offset above 12 hours is
\* rejected with the 'too large' message and every other rejected offset,
\* zero or malformed, with the format message.
C13_OffsetGrammar ==
  Validated =>
    /\ ValueOf(shift).result.valid <=> Acceptable(ValueOf(shift).offset)
    /\ ~ValueOf(shift).result.valid =>
         ValueOf(shift).result.error =
           Some(IF TooLarge(ValueOf(shift).offset)
                THEN "Offset too large (max 12 hours)"
                ELSE "Invalid offset format. Use +/-[Nh][Nm] (e.g., +10m, -1h30m, +2h)")

\* C13, amended: as above, except that a blank offset (empty, or white space
\* only) is rejected with a message of its own, 'Offset cannot be empty'.
C13_OffsetGrammarNonBlank ==
  Validated =>
    /\ ValueOf(shift).result.valid <=> Acceptable(ValueOf(shift).offset)
    /\ ~ValueOf(shift).result.valid =>
         ValueOf(shift).result.error =
           Some(IF Trim(ValueOf(shift).offset) = <<>>
                THEN "Offset cannot be empty"
                ELSE IF TooLarge(ValueOf(shift).offset)
                THEN "Offset too large (max 12 hours)"
                ELSE "Invalid offset format. Use +/-[Nh][Nm] (e.g., +10m, -1h30m, +2h)")

\* An offset above 12 hours was validated and rejected as too large.
C13_Witness ==
  /\ Validated
  /\ TooLarge(ValueOf(shift).offset)
  /\ ~ValueOf(shift).result.valid
  /\ ValueOf(shift).result.error = Some("Offset too large (max 12 hours)")

\* The last call was applyTimeOffsetToTimeString.
Applied == IsSome(shift) /\ ValueOf(shift).op = "applyTimeOffsetToTimeString"

\* The fields of a rendered time text: the number before the colon or the
\* suffix, the number after the colon (0 without one) and the suffix.
HourField(t) == ParseInt(SubSeq(t, 1, RunEnd(t, 1, Digit) - 1))
HasMinuteField(t) == RunEnd(t, 1, Digit) <= Len(t) /\ t[RunEnd(t, 1, Digit)] = ":"
MinuteField(t) ==
  IF HasMinuteField(t)
  THEN ParseInt(SubSeq(t, RunEnd(t, 1, Digit) + 1, RunEnd(t, RunEnd(t, 1, Digit) + 1, Digit) - 1))
  ELSE 0
Suffix(t) ==
  Slice(t, IF HasMinuteField(t) THEN RunEnd(t, RunEnd(t, 1, Digit) + 1, Digit)
           ELSE RunEnd(t, 1, Digit))
\* The hour of the day a rendered time text stands for.
HourOfDay(t) ==
  IF ToLowerCase(t) = Noon THEN 12
  ELSE IF ToLowerCase(t) = Midnight THEN 0
  ELSE IF ToLowerCase(Suffix(t)) = <<"p", "m">> THEN (HourField(t) % 12) + 12
  ELSE IF ToLowerCase(Suffix(t)) = <<"a", "m">> THEN HourField(t) % 12
  ELSE HourField(t)
MinuteOfHour(t) ==
  IF ToLowerCase(t) \in {Noon, Midnight} THEN 0 ELSE MinuteField(t)

\* C14: when a time string the utilities accept as h:m is moved by an offset
\* of d minutes, forward or backward, the new time string stands for the
\* minute (h*60 + m + d) mod 1440 of the day, its hour within 0..23 and its
\* minute within 0..59.
C14_Wraparound ==
  (Applied /\ parseTimeString(ValueOf(shift).timeStr).success) =>
    /\ ValueOf(shift).result.success
    /\ HourOfDay(ValueOf(ValueOf(shift).result.newTime)) \in 0..23
    /\ MinuteOfHour(ValueOf(ValueOf(shift).result.newTime)) \in 0..59
    /\ HourOfDay(ValueOf(ValueOf(shift).result.newTime)) * 60
         + MinuteOfHour(ValueOf(ValueOf(shift).result.newTime))
       = (parseTimeString(ValueOf(shift).timeStr).hours * 60
            + parseTimeString(ValueOf(shift).timeStr).minutes
            + TotalMinutes(ValueOf(shift).offset)) % 1440

\* "23:45" was moved by +30m across midnight and gave "00:15".
C14_Witness ==
  /\ Applied
  /\ ValueOf(shift).timeStr = T_2345
  /\ TotalMinutes(ValueOf(shift).offset) = 30
  /\ ValueOf(shift).result.newTime = Some(T_0015)

\* The textual style of a time token: a word, a 12-hour token with am or pm,
\* an hour:minute token without suffix, or a bare hour.
StyleOf(t) ==
  IF ToLowerCase(t) \in {Noon, Midnight} THEN "word"
  ELSE IF ToLowerCase(Suffix(t)) \in {<<"a", "m">>, <<"p", "m">>} THEN "ampm"
  ELSE IF HasMinuteField(t) THEN "hour:minute"
  ELSE "bare hour"

\* The new token keeps the style of the old one; the words are produced
\* exactly when the new time is 12:00 or 00:00.
SameStyle(old, new) ==
  /\ StyleOf(old) = "bare hour" => StyleOf(new) \in {"bare hour", "hour:minute"}
  /\ StyleOf(old) = "hour:minute" => StyleOf(new) = "hour:minute"
  /\ (StyleOf(old) = "hour:minute" /\ Len(old) = 5) => Len(new) = 5
  /\ StyleOf(old) = "ampm" => StyleOf(new) = "ampm"
  /\ StyleOf(old) = "word" =>
       /\ ToLowerCase(new) = Noon <=> (HourOfDay(new) = 12 /\ MinuteOfHour(new) = 0)
       /\ ToLowerCase(new) = Midnight <=> (HourOfDay(new) = 0 /\ MinuteOfHour(new) = 0)

\* C15: when a time token the analyzer takes as an explicit start is moved,
\* the move succeeds and the new token is in the style of the old one: a
\* bare hour stays without suffix, hour:minute stays hour:minute (HH:MM
\* stays two digits each), am/pm stays am/pm, and noon and midnight are
\* written exactly when the new time is 12:00 and 00:00.
C15_StylePreserved ==
  (Applied /\ isTimePart(ValueOf(shift).timeStr)) =>
    /\ ValueOf(shift).result.success
    /\ SameStyle(ValueOf(shift).timeStr, ValueOf(ValueOf(shift).result.newTime))

\* C20: a malformed line never aborts the analysis. analyze never leaves by
\* an exception, and when it returns there is exactly one line record per
\* line of the text, in document order, its lineNo the 1-based position and
\* its raw the text of that line.
C20_NeverAborts ==
  /\ pc # "threw"
  /\ pc = "done" =>
       /\ Len(analyzedLines) = Len(source)
       /\ \A i \in DOMAIN analyzedLines :
            analyzedLines[i].lineNo = i /\ analyzedLines[i].raw = source[i]

\* ------------------------------------------- claims of the time-shift engine

\* executeTimeShift was called on a line of the analyzed document.
Executed == IsSome(shift) /\ ValueOf(shift).op = "executeTimeShift"
\* The line the engine was called on, and what the call returned.
EditedLine == analyzedLines[ValueOf(shift).lineNumber]
ShiftResult == ValueOf(shift).result
\* The line is a task line whose start is explicit (resp. inherited).
ExplicitTask(line) ==
  IsTaskLine(line) /\ ValueOf(line.node).explicitStart /\ IsSome(ValueOf(line.node).start)
InheritedTask(line) ==
  IsTaskLine(line) /\ ~ValueOf(line.node).explicitStart /\ IsSome(ValueOf(line.node).start)
\* The last n characters of s.
LastChars(s, n) == SubSeq(s, Len(s) - n + 1, Len(s))
\* new is raw with the characters of the token image at offset a replaced by
\* newTime, and every other character of raw as it was.
ReplacedAt(raw, image, a, newTime, new) ==
  /\ a + Len(image) <= Len(raw)
  /\ SubSeq(raw, a + 1, a + Len(image)) = image
  /\ new = SubSeq(raw, 1, a) \o newTime \o LastChars(raw, Len(raw) - a - Len(image))

\* C12: a successful shift of a task line with an explicit start returns the
\* original raw line with only the characters of its time token replaced by
\* the re-rendered time, every character before and after the token's span in
\* the original raw text unchanged, also for a line without the space after
\* its marker.
C12_OnlyTimeTokenReplaced ==
  (Executed /\ ExplicitTask(EditedLine) /\ ShiftResult.success)
    => \E a \in 0..Len(EditedLine.raw) :
         ReplacedAt(EditedLine.raw,
                    ValueOf(findTimeTokenInLine(EditedLine.raw)).timeStr,
                    a,
                    ValueOf(applyTimeOffsetToTimeString(
                              ValueOf(findTimeTokenInLine(EditedLine.raw)).timeStr,
                              ValueOf(parseTimeOffset(ValueOf(shift).offset))).newTime),
                    ValueOf(ShiftResult.newLineContent))

\* The offset of the call passes validateTimeOffset.
ValidShiftOffset == validateTimeOffset(ValueOf(shift).offset).valid
\* The minutes the offset of the call stands for, with their sign.
ShiftMinutes == TotalMinutes(ValueOf(parseTimeOffset(ValueOf(shift).offset)))
\* The first p characters of raw are the marker of the line: optional white
\* space, the dash, and all the white space after it.
IsMarker(raw, p) ==
  /\ p \in 1..Len(raw)
  /\ \E d \in 1..p :
       /\ raw[d] = "-"
       /\ \A k \in 1..p : k # d => raw[k] \in Space
  /\ (p < Len(raw) => raw[p + 1] \notin Space)
\* new is raw with a time token, a comma and a space put after the first p
\* characters, the token standing for the minute minuteOfDay of the day.
TokenInsertedAt(raw, p, new, minuteOfDay) ==
  /\ Len(new) > Len(raw) + 2
  /\ new = SubSeq(raw, 1, p) \o SubSeq(new, p + 1, p + Len(new) - Len(raw) - 2)
             \o <<",", " ">> \o SubSeq(raw, p + 1, Len(raw))
  /\ StyleOf(SubSeq(new, p + 1, p + Len(new) - Len(raw) - 2)) \in {"word", "ampm"}
  /\ HourOfDay(SubSeq(new, p + 1, p + Len(new) - Len(raw) - 2)) * 60
       + MinuteOfHour(SubSeq(new, p + 1, p + Len(new) - Len(raw) - 2))
     = minuteOfDay

\* C16: shifting a task line without explicit start but with a resolved
\* (inherited) start succeeds and returns the original line with a new time
\* token, standing for the resolved start plus the offset, put right after the
\* marker of the line and followed by a comma and a space, the rest of the
\* line after the marker as it was.
C16_InheritedStartInserted ==
  (Executed /\ InheritedTask(EditedLine) /\ ValidShiftOffset)
    => /\ ShiftResult.success
       /\ \E p \in 1..Len(EditedLine.raw) :
            /\ IsMarker(EditedLine.raw, p)
            /\ TokenInsertedAt(EditedLine.raw, p, ValueOf(ShiftResult.newLineContent),
                               (ValueOf(ValueOf(EditedLine.node).start).minutes
                                  + ShiftMinutes) % 1440)

\* "- B" after "- 9am, Task, 30m" starts at 9:30; shifted by +15m it became
\* "- 9:45am, B".
C16_Witness ==
  /\ Executed
  /\ source = <<S_Task, L_TaskB>>
  /\ ValueOf(shift).lineNumber = 2
  /\ ValueOf(shift).offset = O_P15m
  /\ InheritedTask(EditedLine)
  /\ ShiftResult.newLineContent
       = Some(<<"-", " ", "9", ":", "4", "5", "a", "m", ",", " ", "B">>)

\* shiftTime of the language service was called.
ServiceShifted ==
  IsSome(shift) /\ ValueOf(shift).op = "shiftTime" /\ ~ValueOf(shift).threw
\* The line j is a task line with (resp. without) an explicit start.
ExplicitAt(j) == AnalyzedTask(j) /\ NodeAt(j).explicitStart
ImplicitAt(j) == AnalyzedTask(j) /\ ~NodeAt(j).explicitStart
\* The numbers of the lines a shift of line n affects: the task lines
\* without explicit start after n and before the first task line after n that
\* has one, in document order.
AffectedAfter(n) ==
  Ascending({j \in (n + 1)..Len(analyzedLines) :
               ImplicitAt(j) /\ \A k \in (n + 1)..j : ~ExplicitAt(k)})

\* C17: a successful shift of a line reports, in document order, exactly the
\* task lines without explicit start that follow the edited line up to (and
\* excluding) the first later task line with an explicit start, or up to the
\* end of the document; the new content differs from the old one in the
\* edited line only.
C17_AffectedLines ==
  /\ (Executed /\ ShiftResult.success)
       => ShiftResult.affectedLines
            = Some([k \in DOMAIN AffectedAfter(ValueOf(shift).lineNumber) |->
                      analyzedLines[AffectedAfter(ValueOf(shift).lineNumber)[k]].id])
  /\ (ServiceShifted /\ ShiftResult.success)
       => /\ ShiftResult.affectedLines = Some(AffectedAfter(ValueOf(shift).lineNumber))
          /\ DOMAIN ValueOf(ShiftResult.newContent) = DOMAIN source
          /\ \A j \in DOMAIN source :
               j # ValueOf(shift).lineNumber => ValueOf(ShiftResult.newContent)[j] = source[j]

\* In "- 9am, Task, 30m" / "- B" / "- 23:45 C" the first line was shifted by
\* +15m: line 2 is affected, line 3 with its own start is not, and only the
\* first line has a new text.
C17_Witness ==
  /\ ServiceShifted
  /\ source = <<S_Task, L_TaskB, S_Late>>
  /\ ValueOf(shift).lineNumber = 1
  /\ ValueOf(shift).offset = O_P15m
  /\ ShiftResult.affectedLines = Some(<<2>>)
  /\ ShiftResult.newContent
       = Some(<<<<"-", " ", "9", ":", "1", "5", "a", "m", ",", " ", "T", "a", "s", "k",
                  ",", " ", "3", "0", "m">>, L_TaskB, S_Late>>)

\* The messages of the causes of failure the engine names.
M_OffsetEmpty == "Offset cannot be empty"
M_OffsetFormat ==
  "Invalid offset format. Use +/-[Nh][Nm] (e.g., +10m, -1h30m, +2h)"
M_OffsetTooLarge == "Offset too large (max 12 hours)"
M_NotATask == "Time shift can only be applied to task lines"
M_TimeNotLocated == "Could not locate time in line to modify"
\* The offset of the call has no well-formed non-zero magnitude (resp. one
\* above 12 hours).
OffsetMalformed ==
  ~(WellFormedOffset(ValueOf(shift).offset) /\ Magnitude(ValueOf(shift).offset) > 0)
OffsetOutOfBound == TooLarge(ValueOf(shift).offset)
\* No time token outside a comment is left in the text of the edited line.
NoTimeInLine == ~IsSome(findTimeTokenInLine(EditedLine.raw))
\* The call failed with the message and returned no new line text.
FailedWith(message) ==
  /\ ~ShiftResult.success
  /\ ShiftResult.error = Some(message)
  /\ ShiftResult.newLineContent = None

\* The engine's call on an analyzed line: each of the four causes fails with
\* its message (the format cause with one of its two messages, the blank
\* offset having its own) and without new line text; each message is given
\* for its cause only; and no failing call returns new line text.
EngineFailureSemantics ==
  Executed =>
    /\ OffsetMalformed =>
         FailedWith(IF Trim(ValueOf(shift).offset) = <<>> THEN M_OffsetEmpty
                    ELSE M_OffsetFormat)
    /\ OffsetOutOfBound => FailedWith(M_OffsetTooLarge)
    /\ (ValidShiftOffset /\ ~IsTaskLine(EditedLine)) => FailedWith(M_NotATask)
    /\ (ValidShiftOffset /\ ExplicitTask(EditedLine) /\ NoTimeInLine)
         => FailedWith(M_TimeNotLocated)
    /\ (ValidShiftOffset /\ IsTaskLine(EditedLine)
          /\ ~IsSome(ValueOf(EditedLine.node).start)) => ~ShiftResult.success
    /\ ShiftResult.error \in {Some(M_OffsetEmpty), Some(M_OffsetFormat)} => OffsetMalformed
    /\ ShiftResult.error = Some(M_OffsetTooLarge) => OffsetOutOfBound
    /\ ShiftResult.error = Some(M_NotATask)
         => (ValidShiftOffset /\ ~IsTaskLine(EditedLine))
    /\ ShiftResult.error = Some(M_TimeNotLocated)
         => (ValidShiftOffset /\ ExplicitTask(EditedLine) /\ NoTimeInLine)
    /\ ~ShiftResult.success
         => (ShiftResult.newLineContent = None /\ IsSome(ShiftResult.error))
    /\ ShiftResult.success
         => (IsSome(ShiftResult.newLineContent) /\ ShiftResult.error = None)

\* shiftTime of the language service was called, whether it returned or threw.
ServiceCalled == IsSome(shift) /\ ValueOf(shift).op = "shiftTime"
\* The line the service was asked to shift is a line of the document that is
\* no task line.
NonTaskTarget ==
  /\ ValueOf(shift).lineNumber \in DOMAIN rawLines
  /\ ~IsSome(rawLines[ValueOf(shift).lineNumber].task)

\* The service's call on a document: a call with a malformed offset, an
\* offset above 12 hours or a target line that is no task returns
\* success=false with an error message and no new content, and no failing
\* call returns new content.
ServiceFailureSemantics ==
  ServiceCalled =>
    /\ (OffsetMalformed \/ OffsetOutOfBound \/ NonTaskTarget) =>
         /\ ~ValueOf(shift).threw
         /\ ~ShiftResult.success
         /\ IsSome(ShiftResult.error)
         /\ ShiftResult.newContent = None
    /\ (~ValueOf(shift).threw /\ ~ShiftResult.success) =>
         (IsSome(ShiftResult.error) /\ ShiftResult.newContent = None)

\* C18: a shift with a malformed offset, an offset above 12 hours, a target
\* line that is no task, or a task line with explicit start whose time token
\* cannot be located returns success=false with an error message and no new
\* line text, the four causes with pairwise distinct messages; no failing
\* shift, that of a task without resolved start included, returns new line
\* text.  The shift is the engine's call on an analyzed line or the
\* service's call on a document.
C18_FailureSemantics == EngineFailureSemantics /\ ServiceFailureSemantics

\* The task "- A # 9am" of a document has its start in its comment: it is
\* explicit for the analyzer, the lexer finds no time token, and the shift by
\* +15m failed with the message of the time not located.
C18_Witness ==
  /\ Executed
  /\ EditedLine.raw = S_Hidden
  /\ ExplicitTask(EditedLine)
  /\ ValueOf(shift).offset = O_P15m
  /\ FailedWith(M_TimeNotLocated)

\* shiftMultipleLines of the language service was called.
BatchShifted ==
  IsSome(shift) /\ ValueOf(shift).op = "shiftMultipleLines" /\ ~ValueOf(shift).threw
\* The shift of line n of the analyzed document on its own, by the offset of
\* the call.
ShiftAlone(n) == executeTimeShift(analyzedLines[n], ValueOf(shift).offset, analyzedLines)

\* C19: when several lines of one analyzed document are shifted by the same
\* valid offset, every selected line whose own shift succeeds has its new text
\* at its line number in the content the batch returns, whether or not another
\* line of the selection failed.
C19_BatchIndependence ==
  (BatchShifted /\ ValidShiftOffset)
    => \A k \in DOMAIN ValueOf(shift).lineNumbers :
         ShiftAlone(ValueOf(shift).lineNumbers[k]).success
           => /\ IsSome(ShiftResult.newContent)
              /\ ValueOf(ShiftResult.newContent)[ValueOf(shift).lineNumbers[k]]
                   = ValueOf(ShiftAlone(ValueOf(shift).lineNumbers[k]).newLineContent)

\* --------------------------------------------------- claims of the directives

\* The directive of line i, as parseLineContent read it.
DirectiveAt(i) == ValueOf(rawLines[i].directive)
\* The names applyDirective knows.
KnownDirectives == {Scratchpad, Planner, K_default, K_policy, K_day, K_tz}
\* s has the form YYYY-MM-DD.
IsYearMonthDay(s) ==
  /\ Len(s) = 10
  /\ \A k \in 1..10 : IF k \in {5, 8} THEN s[k] = "-" ELSE s[k] \in Digit
\* s is a duration: an hour count, a minute count, or both in this order.
IsDurationText(s) ==
  /\ Len(s) >= 2
  /\ \E k \in 0..Len(s) :
       /\ (k = 0 \/ IsCount(SubSeq(s, 1, k), "h"))
       /\ (k = Len(s) \/ IsCount(SubSeq(s, k + 1, Len(s)), "m"))
\* The minutes of a duration text.
DurationValue(s) ==
  LET k == CHOOSE k \in 0..Len(s) :
             /\ (k = 0 \/ IsCount(SubSeq(s, 1, k), "h"))
             /\ (k = Len(s) \/ IsCount(SubSeq(s, k + 1, Len(s)), "m"))
  IN CountOf(SubSeq(s, 1, k)) * 60 + CountOf(SubSeq(s, k + 1, Len(s)))
\* The directive has an unknown name, a day not of the form YYYY-MM-DD, an
\* overlap policy that is none of the three, or a default duration that is no
\* duration.
UnknownName(d) == d.name \notin KnownDirectives
MalformedDay(d) ==
  d.name = K_day /\ ~(IsSome(FirstValue(d.args)) /\ IsYearMonthDay(ValueOf(FirstValue(d.args))))
InvalidPolicy(d) ==
  /\ d.name = K_policy
  /\ HasKey(d.args, K_overlaps)
  /\ Get(d.args, K_overlaps) \notin {P_warning, P_error, P_ignore}
InvalidDefault(d) ==
  /\ d.name = K_default
  /\ HasKey(d.args, K_duration)
  /\ ~(/\ IsDurationText(Get(d.args, K_duration))
       /\ DurationValue(Get(d.args, K_duration)) > 0)
FailingDirective(d) == UnknownName(d) \/ MalformedDay(d) \/ InvalidPolicy(d) \/ InvalidDefault(d)
\* A pass of analyze is at a directive line whose directive fails.
AtFailingDirective ==
  /\ pc \in {"pass1", "pass2"}
  /\ IsSome(Current.directive)
  /\ FailingDirective(ValueOf(Current.directive))
\* The line with the number n was added to the analyzed lines, invalid and
\* with an error-class diagnostic on itself.
AddedInvalid(lines, n) ==
  /\ Len(lines) = n
  /\ lines[n].lineNo = n
  /\ lines[n].status = "invalid"
  /\ \E k \in DOMAIN lines[n].diagnostics :
       /\ IsErrorCode(lines[n].diagnostics[k].code)
       /\ lines[n].diagnostics[k].line = n

\* C21: a directive line with an unknown name, a malformed day, an invalid
\* overlap policy or an invalid default duration leaves the context (and the
\* cursor and the scheduled set) as they were in both passes, gets an
\* error-class diagnostic on its own line and status invalid in the second
\* pass, and the analysis goes on to the next line without throwing.
C21_DirectiveFailuresLocal ==
  [][AtFailingDirective =>
       /\ context' = context
       /\ cursorTime' = cursorTime
       /\ tasks' = tasks
       /\ pc' # "threw"
       /\ (index' = index + 1 \/ pc' # pc)
       /\ (pc = "pass2" => AddedInvalid(analyzedLines', index + 1))]_vars

\* "- !default duration=abc", "- !policy overlaps=maybe" and "- 9am A 1h" were
\* analyzed: the two directives are invalid, the context is the seeded one,
\* and the task after them is valid.
C21_Witness ==
  /\ pc = "done"
  /\ source = <<L_BadDefault, L_BadPolicy, L_TaskA>>
  /\ FailingDirective(DirectiveAt(1)) /\ FailingDirective(DirectiveAt(2))
  /\ analyzedLines[1].status = "invalid"
  /\ analyzedLines[2].status = "invalid"
  /\ analyzedLines[3].status = "valid"
  /\ context = SeedContext(options)

\* Line i is a valid directive for the default duration, the overlap policy,
\* the day, the timezone.
SetsDefault(i) ==
  /\ IsSome(rawLines[i].directive)
  /\ DirectiveAt(i).name = K_default
  /\ HasKey(DirectiveAt(i).args, K_duration)
  /\ IsDurationText(Get(DirectiveAt(i).args, K_duration))
  /\ DurationValue(Get(DirectiveAt(i).args, K_duration)) > 0
SetsPolicy(i) ==
  /\ IsSome(rawLines[i].directive)
  /\ DirectiveAt(i).name = K_policy
  /\ HasKey(DirectiveAt(i).args, K_overlaps)
  /\ Get(DirectiveAt(i).args, K_overlaps) \in {P_warning, P_error, P_ignore}
SetsDay(i) ==
  /\ IsSome(rawLines[i].directive)
  /\ DirectiveAt(i).name = K_day
  /\ IsSome(FirstValue(DirectiveAt(i).args))
  /\ IsYearMonthDay(ValueOf(FirstValue(DirectiveAt(i).args)))
SetsTimezone(i) ==
  /\ IsSome(rawLines[i].directive)
  /\ DirectiveAt(i).name = K_tz
\* The last line of the document that satisfies Sets.
LastLine(Sets(_)) ==
  CHOOSE i \in DOMAIN rawLines : Sets(i) /\ \A j \in DOMAIN rawLines : Sets(j) => j <= i
NoLine(Sets(_)) == \A i \in DOMAIN rawLines : ~Sets(i)

\* C22: the context at the end of an analysis has, for each setting, the value
\* of the last valid directive of the document for it, and the seeded value
\* (30 minutes, warning, the day and the timezone of the options or of the
\* system) when the document has no valid directive for it.
C22_LastValidDirectiveWins ==
  pc = "done" =>
    /\ context.defaultDurationMin
         = IF NoLine(SetsDefault) THEN 30
           ELSE DurationValue(Get(DirectiveAt(LastLine(SetsDefault)).args, K_duration))
    /\ context.overlapPolicy
         = IF NoLine(SetsPolicy) THEN P_warning
           ELSE Get(DirectiveAt(LastLine(SetsPolicy)).args, K_overlaps)
    /\ context.day
         = IF NoLine(SetsDay)
           THEN (IF options.today \notin {None, Some(<<>>)} THEN ValueOf(options.today)
                 ELSE SystemDay)
           ELSE ValueOf(FirstValue(DirectiveAt(LastLine(SetsDay)).args))
    /\ context.timezone
         = IF NoLine(SetsTimezone)
           THEN (IF options.timezone \notin {None, Some(<<>>)} THEN options.timezone
                 ELSE Some(SystemTimeZone))
           ELSE FirstValue(DirectiveAt(LastLine(SetsTimezone)).args)

\* "- !default duration=90m", "- !default duration=0m" and "- !tz" were
\* analyzed with a day and a timezone in the options: the default duration is
\* 90, the timezone is the undefined value of the directive without a value,
\* the rest is what was seeded.
C22_Witness ==
  /\ pc = "done"
  /\ source = <<L_Default, L_Default0, L_TzBare>>
  /\ options = [today |-> Some(D_20250115), timezone |-> Some(TZ_Toronto)]
  /\ context = [day |-> D_20250115, timezone |-> None,
                defaultDurationMin |-> 90, overlapPolicy |-> P_warning]

\* ------------------------------------------------ claims of the task lines

\* The parts of the task line i, as parseLineContent splits its content.
PartsAt(i) == splitTaskParts(ValueOf(LineContent(rawLines[i].raw)))

\* A category token with an empty segment: a category marker followed by a
\* path that ends with the separator or holds a tripled separator.
EmptySegmentToken(part) ==
  /\ StartsWith(part, <<":">>)
  /\ (EndsWith(part, <<":", ":">>) \/ Includes(part, <<":", ":", ":">>))

\* Every category path of the node of line i is a non-empty list of
\* non-empty segments.
CategoryPathsValid(i) ==
  \A c \in DOMAIN NodeAt(i).categories :
    /\ Len(NodeAt(i).categories[c].segments) >= 1
    /\ \A s \in DOMAIN NodeAt(i).categories[c].segments :
         NodeAt(i).categories[c].segments[s] # <<>>

\* C23 -- Category validity: every category path of every task node is a
\* non-empty list of non-empty segments; a task line with a category token
\* that has an empty segment (a path ending with the separator, a tripled
\* separator) has the diagnostic E050-bad-category and the status invalid;
\* a well-formed category token gives the path of its segments.
C23_CategoryValidity ==
  \A i \in DOMAIN analyzedLines :
    AnalyzedTask(i) =>
      /\ CategoryPathsValid(i)
      /\ \A k \in DOMAIN PartsAt(i) :
           /\ EmptySegmentToken(PartsAt(i)[k]) =>
                /\ "E050-bad-category" \in CodesAt(i)
                /\ analyzedLines[i].status = "invalid"
           /\ (isCategoryPart(PartsAt(i)[k])
               /\ ~isTimePart(PartsAt(i)[k]) /\ ~isDurationPart(PartsAt(i)[k])) =>
                \E c \in DOMAIN NodeAt(i).categories :
                  NodeAt(i).categories[c].segments
                    = SplitDoubleColon(Slice(PartsAt(i)[k], 2))

\* The line that the step of analyzeTask appends, and its node.
NewLine == analyzedLines'[Len(analyzedLines')]
NewNode == ValueOf(NewLine.node)

\* The analyzed line has diagnostics, and all of them are of warning class.
OnlyWarnings(line) ==
  /\ line.diagnostics # <<>>
  /\ Codes(line.diagnostics) \subseteq WarningCodes

\* C24 -- Warnings never block chaining: when analyzeTask returns a task line
\* with a resolved start whose diagnostics are all of warning class, the line
\* has status valid-with-warnings, the cursor becomes the line's own end and
\* the line's node is appended to the scheduled set that the overlap checks
\* of the later lines read.
C24_WarningsNeverBlock ==
  [][(AtTaskLine /\ Len(analyzedLines') = Len(analyzedLines) + 1) =>
       ((IsSome(NewNode.start) /\ OnlyWarnings(NewLine)) =>
          /\ NewLine.status = "valid-with-warnings"
          /\ IsSome(NewNode.end)
          /\ cursorTime' = NewNode.end
          /\ tasks' = Append(tasks, NewNode))]_vars

\* A line with the missing-space, the unknown-part and the trailing-comma
\* warnings was followed by a line that overlaps it and has the overlap
\* warning, and the line after that one, which has no time token, starts at
\* the end of the line with the overlap warning.
C24_Witness ==
  /\ pc = "done"
  /\ Len(analyzedLines) = 3
  /\ \A i \in 1..3 : AnalyzedTask(i)
  /\ CodesAt(1) = {"W001-missing-space-after-dash", "W030-unknown-part",
                   "W005-trailing-comma"}
  /\ CodesAt(2) = {"W010-overlap"}
  /\ Intersects(NodeAt(1), NodeAt(2))
  /\ NoTimeToken(3)
  /\ NodeAt(3).start = NodeAt(2).end
  /\ tasks = <<NodeAt(1), NodeAt(2), NodeAt(3)>>

\* ------------------------------------------- claims of the scratchpad section

\* One of the two passes of analyze is about to handle a line that lies
\* inside the scratchpad section.
AtScratchpadLine ==
  /\ pc \in {"pass1", "pass2"}
  /\ index + 1 \in DOMAIN rawLines
  /\ InScratchpad(index + 1)

\* C25 -- Lines inside a scratchpad section are inert: no step of analyze on
\* a line between a scratchpad directive and the next planner directive
\* changes the cursor, the scheduled set or the analysis context (default
\* duration, overlap policy, day, timezone).
C25_ScratchpadInert ==
  [][AtScratchpadLine => UNCHANGED <<context, cursorTime, tasks>>]_vars

\* --------------------------------------------- claims of applyDirective

\* The context and the section mode before the k-th call of applyDirective.
ContextBefore(k) == IF k = 1 THEN SeedContext(options) ELSE Applications[k - 1].context
SectionBefore(k) == IF k = 1 THEN "planner" ELSE Applications[k - 1].currentSection

\* The k-th call changed the context.
ChangedContext(k) == Applications[k].context # ContextBefore(k)

\* The context after the directives a and b are applied in this order to ctx.
AfterBoth(a, b, ctx, section) ==
  applyDirective(b, applyDirective(a, ctx, section).context, section).context

\* C26 -- Duplicate directive application is side-effect-stable: a call of
\* applyDirective that fails leaves the context as it was; the same directive
\* applied twice in a row leaves the context and the section mode as the
\* first application left them, and fails the second time exactly when and as
\* it failed the first time; a sequence of two directives applied a second
\* time, as the two passes of analyze do, leaves the context of the first
\* round; and the order matters: two directives of the same name that each
\* changed the context give another context when applied in the other order.
C26_DuplicateApplicationStable ==
  \A k \in DOMAIN Applications :
    /\ IsSome(Applications[k].threw) =>
         /\ Applications[k].context = ContextBefore(k)
         /\ Applications[k].currentSection = SectionBefore(k)
    /\ (k > 1 /\ Applications[k].directive = Applications[k - 1].directive) =>
         /\ Applications[k].context = Applications[k - 1].context
         /\ Applications[k].currentSection = Applications[k - 1].currentSection
         /\ Applications[k].threw = Applications[k - 1].threw
    /\ (/\ k = 4
        /\ Applications[3].directive = Applications[1].directive
        /\ Applications[4].directive = Applications[2].directive) =>
         /\ Applications[4].context = Applications[2].context
         /\ Applications[4].currentSection = Applications[2].currentSection
         /\ Applications[3].threw = Applications[1].threw
         /\ Applications[4].threw = Applications[2].threw
    /\ (/\ k > 1
        /\ Applications[k].directive.name = Applications[k - 1].directive.name
        /\ ChangedContext(k - 1) /\ ChangedContext(k)) =>
         AfterBoth(Applications[k].directive, Applications[k - 1].directive,
                   ContextBefore(k - 1), SectionBefore(k - 1))
           # Applications[k].context

\* Two directives for the default duration, each changing it, were applied
\* and then applied once more in the same order; the default duration is
\* that of the second directive, and the other order gives that of the first.
C26_Witness ==
  /\ Len(Applications) = 4
  /\ Applications[1].directive = DirectiveOfLine(L_Default45)
  /\ Applications[2].directive = DirectiveOfLine(L_Default)
  /\ Applications[3].directive = Applications[1].directive
  /\ Applications[4].directive = Applications[2].directive
  /\ ChangedContext(1) /\ ChangedContext(2)
  /\ context.defaultDurationMin = 90
  /\ AfterBoth(Applications[2].directive, Applications[1].directive,
               SeedContext(options), "planner").defaultDurationMin = 45

\* ------------------------------------------ claims of the parts of a line

RawTaskAt(i) == ValueOf(rawLines[i].task)

\* The part is one of the title parts of the task line i.
InTitle(i, part) ==
  \E t \in DOMAIN RawTaskAt(i).titleParts : RawTaskAt(i).titleParts[t] = part

\* The part is the time token that parseTime read the start from.
IsTheTime(i, part) ==
  /\ RawTaskAt(i).time = Some(part)
  /\ IsSome(parseTime(part, i).value)

\* The part is the duration token that parseDuration read the duration from.
IsTheDuration(i, part) ==
  /\ RawTaskAt(i).duration = Some(part)
  /\ IsSome(parseDuration(part, i).value)

\* The part is a category token whose path is in the node.
IsACategory(i, part) ==
  /\ StartsWith(part, <<":">>)
  /\ \E c \in DOMAIN NodeAt(i).categories :
       NodeAt(i).categories[c].segments = SplitDoubleColon(Slice(part, 2))

\* C27 -- No text is silently dropped from a task line: every part of the
\* line is the time, the duration, a category or a part of the title, and a
\* line with the diagnostic E010-bad-duration or E050-bad-category still has
\* all its parts in one of these places.
C27_NoTextDropped ==
  \A i \in DOMAIN analyzedLines :
    AnalyzedTask(i) =>
      \A k \in DOMAIN PartsAt(i) :
        \/ IsTheTime(i, PartsAt(i)[k])
        \/ IsTheDuration(i, PartsAt(i)[k])
        \/ IsACategory(i, PartsAt(i)[k])
        \/ InTitle(i, PartsAt(i)[k])

\* The part is recognizable as neither a time, a duration nor a category, and
\* is not of a clearly malformed shape.
UnknownPart(part) ==
  /\ ~isTimePart(part) /\ ~isDurationPart(part) /\ ~isCategoryPart(part)
  /\ ~isLikelyBadCategory(part) /\ ~isLikelyBadDuration(part)

\* C28 -- A part of a task line that is recognizable as neither a time, a
\* duration nor a category, and is not clearly malformed, is one of the title
\* parts and the line has the warning W030-unknown-part.
C28_UnknownPartWarned ==
  \A i \in DOMAIN analyzedLines :
    AnalyzedTask(i) =>
      \A k \in DOMAIN PartsAt(i) :
        UnknownPart(PartsAt(i)[k]) =>
          /\ InTitle(i, PartsAt(i)[k])
          /\ "W030-unknown-part" \in CodesAt(i)

\* ------------------------------------------ claims of the start and duration

D_20250116 == <<"2", "0", "2", "5", "-", "0", "1", "-", "1", "6">>

\* The instant lies within the day: at or after its 00:00 and before its
\* 24:00, that is, as many whole days from 1970-01-01 as the day's midnight.
WithinDay(instant, day) ==
  /\ IsSome(DayStart(day))
  /\ instant.days = ValueOf(DayStart(day)).days

\* The step of analyzeTask returned a line, and the line either has an
\* explicit start at or after 00:00 and before 24:00 of the day the context
\* holds, or has E001-bad-time and is invalid.
ResolvedOrReported ==
  /\ Len(analyzedLines') = Len(analyzedLines) + 1
  /\ \/ /\ NewNode.explicitStart
        /\ IsSome(NewNode.start)
        /\ WithinDay(ValueOf(NewNode.start), context.day)
     \/ /\ "E001-bad-time" \in Codes(NewLine.diagnostics)
        /\ NewLine.status = "invalid"

\* The same for the steps of analyzeTask that return a line.
ResolvedOrReportedWhenReturned ==
  [][(AtTaskLine /\ Len(analyzedLines') = Len(analyzedLines) + 1
      /\ IsSome(ValueOf(Current.task).time)) => ResolvedOrReported]_vars

\* C29 -- An explicit time token resolves to an instant within the
\* configured day or is reported: every step of analyzeTask on a task line
\* that has a time token returns a line, and either its node has an explicit
\* start at or after 00:00 and before 24:00 of the day the context holds, or
\* the line has E001-bad-time and is invalid; a token with an hour above 23
\* or a minute above 59 never gives a start on another day.
C29_ExplicitTimeWithinDay ==
  [][(AtTaskLine /\ IsSome(ValueOf(Current.task).time)) => ResolvedOrReported]_vars

\* After a day directive, the tokens 25:99 and 13pm were resolved to 02:39
\* and to 01:00 of the directive's day.
C29_Witness ==
  /\ pc = "done"
  /\ source = <<L_Day, L_Wrap, L_13pm>>
  /\ context.day = D_20250116
  /\ NodeAt(2).explicitStart /\ NodeAt(3).explicitStart
  /\ NodeAt(2).start = Some(DateAt(ValueOf(DayStart(D_20250116)).days, 2 * 60 + 39))
  /\ NodeAt(3).start = Some(DateAt(ValueOf(DayStart(D_20250116)).days, 60))

\* The parts of the task line that the second pass is about to analyze.
CurrentParts == PartsAt(index + 1)
\* The parts of that line that are duration tokens, and those that are time
\* tokens.
DurationTokens == {k \in DOMAIN CurrentParts : IsDurationText(CurrentParts[k])}
TimeTokens == {k \in DOMAIN CurrentParts : isTimePart(CurrentParts[k])}

\* C30 -- Duration resolution: when analyzeTask returns a task line that has
\* a duration token, the node's durationMin is the token's value, hours * 60
\* + minutes, and explicitDuration is true; for a task line without one,
\* durationMin is the default duration the context holds at that line and
\* explicitDuration is false; explicitStart is true exactly when the line's
\* text has a time token.
C30_DurationResolution ==
  [][(AtTaskLine /\ Len(analyzedLines') = Len(analyzedLines) + 1) =>
       /\ IF DurationTokens # {}
          THEN /\ NewNode.explicitDuration
               /\ \E k \in DurationTokens :
                    NewNode.durationMin = DurationValue(CurrentParts[k])
          ELSE /\ ~NewNode.explicitDuration
               /\ NewNode.durationMin = context.defaultDurationMin
       /\ NewNode.explicitStart <=> TimeTokens # {}]_vars

\* ------------------------------------------------ claims of preprocessLine

\* The last call was preprocessLine.
Preprocessed == IsSome(shift) /\ ValueOf(shift).op = "preprocessLine"

\* The column of the leading marker of the line: the first character that is
\* no white space, when it is a dash; 0 when the line has no leading marker.
MarkerColumn(line) ==
  IF RunEnd(line, 1, Space) <= Len(line) /\ line[RunEnd(line, 1, Space)] = "-"
  THEN RunEnd(line, 1, Space) ELSE 0

\* The leading marker is immediately followed by a character that is no
\* white space.
MarkerCrowded(line) ==
  /\ MarkerColumn(line) > 0
  /\ MarkerColumn(line) < Len(line)
  /\ line[MarkerColumn(line) + 1] \notin Space

\* The line with one space inserted after column c.
SpaceInsertedAfter(line, c) == SubSeq(line, 1, c) \o <<" ">> \o Slice(line, c + 1)

\* C31 -- Line preprocessing: a line whose leading marker is immediately
\* followed by a character that is no white space yields exactly one
\* W001-missing-space-after-dash warning, on the line number given and with a
\* one-column span at the marker of the original line, and a processed line
\* that is the original with one space inserted after the marker; any other
\* line (white space after the marker, nothing after it, no leading marker)
\* yields no diagnostic and the original line.
C31_LinePreprocessing ==
  Preprocessed =>
    IF MarkerCrowded(ValueOf(shift).line)
    THEN /\ Len(ValueOf(shift).result.diagnostics) = 1
         /\ ValueOf(shift).result.diagnostics[1].code = "W001-missing-space-after-dash"
         /\ ValueOf(shift).result.diagnostics[1].line = ValueOf(shift).lineNo
         /\ ValueOf(shift).result.diagnostics[1].startCol = MarkerColumn(ValueOf(shift).line)
         /\ ValueOf(shift).result.diagnostics[1].endCol
              = MarkerColumn(ValueOf(shift).line) + 1
         /\ ValueOf(shift).result.processedLine
              = SpaceInsertedAfter(ValueOf(shift).line, MarkerColumn(ValueOf(shift).line))
    ELSE /\ ValueOf(shift).result.diagnostics = <<>>
         /\ ValueOf(shift).result.processedLine = ValueOf(shift).line

\* ---------------------------------------------- claims of the time parsers

\* The last call was the pair of time parsers.
ParsedBoth == IsSome(shift) /\ ValueOf(shift).op = "parseTimeString"

\* "25:00" and "9:70"
T_2500 == <<"2", "5", ":", "0", "0">>
T_970 == <<"9", ":", "7", "0">>

\* C32 -- The parser utilities accept and reject the same time strings as
\* the analyzer: parseTimeString of parser-utils returns a value exactly when
\* parseTime of the analyzer returns one, and then the hour and the minute of
\* the two agree; both reject 25:00, 9:70 and 13pm.
C32_ParsersAgree ==
  ParsedBoth =>
    /\ IsSome(ValueOf(shift).result) <=> IsSome(ValueOf(shift).analyzer.value)
    /\ (IsSome(ValueOf(shift).result) /\ IsSome(ValueOf(shift).analyzer.value)) =>
         /\ ValueOf(ValueOf(shift).result).hours
              = getHours(ValueOf(ValueOf(shift).analyzer.value))
         /\ ValueOf(ValueOf(shift).result).minutes
              = getMinutes(ValueOf(ValueOf(shift).analyzer.value))
    /\ ValueOf(shift).timeStr \in {T_2500, T_970, T_13pm} =>
         /\ ~IsSome(ValueOf(shift).result)
         /\ ~IsSome(ValueOf(shift).analyzer.value)

\* --------------------------------- claims of the engine against the analyzer

\* The time token the analyzer resolved the start of the edited line from.
AnalyzerTime == ValueOf(ValueOf(rawLines[ValueOf(shift).lineNumber].task).time)

\* The text stands at offset a of raw as a part of its own: after the start
\* of the line, white space, the marker or a comma, and before white space,
\* a comma or the end of the line.
PartAt(raw, text, a) ==
  /\ a + Len(text) <= Len(raw)
  /\ SubSeq(raw, a + 1, a + Len(text)) = text
  /\ (a = 0 \/ raw[a] \in Space \cup {"-", ","})
  /\ (a + Len(text) = Len(raw) \/ raw[a + Len(text) + 1] \in Space \cup {","})

\* The place of the analyzer's time token in the raw line: the first offset
\* at which it stands as a part.
AnalyzerTimeOffset(raw, text) ==
  CHOOSE a \in 0..Len(raw) :
    /\ PartAt(raw, text, a)
    /\ \A b \in 0..(a - 1) : ~PartAt(raw, text, b)

\* C33 -- The engine shifts the token the analyzer resolved: when
\* executeTimeShift is called with a valid offset on a task line that the
\* analyzer marked explicitStart and did not mark invalid, the time token
\* that findTimeTokenInLine locates in the raw line has the text and the
\* place of the token the analyzer resolved the start from, and the shift
\* succeeds.
C33_SameTimeToken ==
  (Executed /\ ExplicitTask(EditedLine) /\ EditedLine.status # "invalid"
   /\ ValidShiftOffset) =>
    /\ IsSome(findTimeTokenInLine(EditedLine.raw))
    /\ ValueOf(findTimeTokenInLine(EditedLine.raw)).timeStr = AnalyzerTime
    /\ ValueOf(findTimeTokenInLine(EditedLine.raw)).start
         = AnalyzerTimeOffset(EditedLine.raw, AnalyzerTime)
    /\ ShiftResult.success

\* ------------------------------------------------------ claims of the chain

\* Up to line i the document is a pure chain: every task line after the
\* first committed one has no time token.
ChainUpTo(i) ==
  \A k \in 1..i : (AnalyzedTask(k) /\ ValidTasksBefore(k) # {}) => NoTimeToken(k)

\* C34 -- A pure chain never overlaps: while every task line after the first
\* committed one has no time token, no task line has an overlap diagnostic,
\* whatever the durations, the invalid lines in between and the overlap
\* policy.
C34_PureChainNeverOverlaps ==
  \A i \in DOMAIN analyzedLines :
    (AnalyzedTask(i) /\ ChainUpTo(i)) => CodesAt(i) \cap OverlapCodes = {}

\* Under the error policy a task of zero duration was committed, an invalid
\* task line without a time token followed, and the task line after it
\* started where the zero-duration task ended, without an overlap diagnostic.
C34_Witness ==
  /\ pc = "done"
  /\ source = <<L_PolicyError, L_ZeroFirst, L_BadChain, L_TaskB>>
  /\ ChainUpTo(4)
  /\ context.overlapPolicy = P_error
  /\ NodeAt(2).durationMin = 0 /\ NodeAt(2).start = NodeAt(2).end
  /\ ~ErrorFree(3) /\ NoTimeToken(3)
  /\ NodeAt(4).start = NodeAt(2).end
  /\ analyzedLines[4].status = "valid"
  /\ tasks = <<NodeAt(2), NodeAt(4)>>

\* ------------------------------------------- claims of the shifted document

\* The content that shiftTime returned has been analyzed.
Reanalyzed ==
  /\ pc = "done"
  /\ ServiceShifted
  /\ ShiftResult.success
  /\ IsSome(previous)
\* The start the analysis gave the line, if any.
StartOfLine(line) == IF IsSome(line.node) THEN ValueOf(line.node).start ELSE None

\* C35 -- Every line shiftTime reports as affected has, in the analysis of
\* the content it returned, a start other than the start it had in the
\* analysis of the content it was given.
C35_AffectedLinesDepend ==
  Reanalyzed
    => \A k \in DOMAIN ValueOf(ShiftResult.affectedLines) :
         StartOfLine(analyzedLines[ValueOf(ShiftResult.affectedLines)[k]])
           # StartOfLine(ValueOf(previous)[ValueOf(ShiftResult.affectedLines)[k]])

\* ------------------------------------- claims of the shift there and back

\* A time string was shifted by an offset and the result by the offset of the
\* other sign.
WentThereAndBack == IsSome(shift) /\ ValueOf(shift).op = "thereAndBack"
\* The minute of the day the time string stands for in the shift arithmetic:
\* hours and minutes as parseTimeString returns them, on the 24-hour clock.
MinuteOfDay(timeStr) ==
  (parseTimeString(timeStr).hours * 60 + parseTimeString(timeStr).minutes) % (24 * 60)

\* C36 -- A time string the shift arithmetic accepts, shifted by a valid
\* offset and then by the same offset with the other sign, gives a time
\* string that stands for the hour and the minute of the day the original
\* stands for; both shifts succeed.
C36_ShiftInvertible ==
  (WentThereAndBack /\ parseTimeString(ValueOf(shift).timeStr).success) =>
    /\ ValueOf(shift).there.success
    /\ ValueOf(shift).back.success
    /\ HourOfDay(ValueOf(ValueOf(shift).back.newTime))
         = MinuteOfDay(ValueOf(shift).timeStr) \div 60
    /\ MinuteOfHour(ValueOf(ValueOf(shift).back.newTime))
         = MinuteOfDay(ValueOf(shift).timeStr) % 60

\* "noon" was shifted by +1h to "1pm" and back by -1h to "12pm": another
\* text for 12:00.
C36_Witness ==
  /\ WentThereAndBack
  /\ ValueOf(shift).timeStr = Noon
  /\ ValueOf(shift).offset = O_P1h
  /\ ValueOf(shift).there.newTime = Some(<<"1", "p", "m">>)
  /\ ValueOf(shift).back.newTime = Some(T_12pm)
  /\ HourOfDay(T_12pm) = 12 /\ MinuteOfHour(T_12pm) = 0

\* ------------------------------------------------ claims of the identifiers

\* C37 -- Within the lines of one analysis no two lines have the same id,
\* lines of the same raw text included, and the lookups by id find the line
\* meant: the lines the engine reports as affected by the shift of a line all
\* come after that line, and the batch merge of the service reports an
\* outcome for each selected line number and for no other.
C37_IdsUnique ==
  /\ \A i, j \in DOMAIN analyzedLines :
       analyzedLines[i].id = analyzedLines[j].id => i = j
  /\ (Executed /\ ShiftResult.success) =>
       \A k \in DOMAIN ValueOf(ShiftResult.affectedLines) :
         \E j \in (ValueOf(shift).lineNumber + 1)..Len(analyzedLines) :
           analyzedLines[j].id = ValueOf(ShiftResult.affectedLines)[k]
  /\ (BatchShifted /\ ShiftResult.success) =>
       DOMAIN ShiftResult.results
         = {ValueOf(shift).lineNumbers[k] : k \in DOMAIN ValueOf(shift).lineNumbers}

\* In "- 9am, Task, 30m" / "- 9am, Task, 30m" / "- B" the first two lines have
\* the same text, the same hash and two ids; the engine was called on the
\* second and found it: it reports the third line as affected, which follows
\* the second and not the first.
C37_Witness ==
  /\ Executed
  /\ source = <<S_Task, S_Task, L_TaskB>>
  /\ ValueOf(shift).lineNumber = 2
  /\ ValueOf(shift).offset = O_P15m
  /\ analyzedLines[1].raw = analyzedLines[2].raw
  /\ analyzedLines[1].id.hash = analyzedLines[2].id.hash
  /\ analyzedLines[1].id # analyzedLines[2].id
  /\ ShiftResult.success
  /\ ShiftResult.affectedLines = Some(<<analyzedLines[3].id>>)

====
